---------------------------- MODULE Spec2Model ----------------------------
(***************************************************************************)
(* TradeSetup: the technical-indicator pipeline (src/indicators_pipeline.py *)
(* with IndicatorsWriter.py and TechnicalIndicators.py).                    *)
(*                                                                          *)
(* Numbers.  Prices and volumes are integers.  Indicator values are         *)
(* extended rationals <<n, d>>: d > 0 is the reduced fraction n/d, and      *)
(* d = 0 encodes the IEEE specials the pandas code can produce:             *)
(* <<0,0>> = NaN, <<1,0>> = +inf, <<-1,0>> = -inf.  Rounding is not         *)
(* modelled.  A database NULL is the separate value SqlNull.                *)
(***************************************************************************)
EXTENDS Integers, Sequences, FiniteSets, TLC

(***************************************************************************)
(* Extended rational arithmetic (the float operations pandas applies).      *)
(***************************************************************************)
NaN == <<0, 0>>
PosInf == <<1, 0>>
NegInf == <<-1, 0>>
SqlNull == <<0, -1>>

Abs(n) == IF n < 0 THEN -n ELSE n
Sign(n) == IF n < 0 THEN -1 ELSE IF n > 0 THEN 1 ELSE 0

RECURSIVE Gcd(_, _)
Gcd(a, b) == IF b = 0 THEN a ELSE Gcd(b, a % b)

RNorm(n, d) ==
    IF n = 0 THEN <<0, 1>>
    ELSE LET g == Gcd(Abs(n), d) IN <<n \div g, d \div g>>

RInt(i) == <<i, 1>>
IsNaN(a) == a = NaN
IsInf(a) == a[2] = 0 /\ a[1] # 0
IsFinite(a) == a[2] > 0

RNeg(a) == <<-a[1], a[2]>>

RAdd(a, b) ==
    IF IsNaN(a) \/ IsNaN(b) THEN NaN
    ELSE IF IsInf(a) /\ IsInf(b) THEN (IF a = b THEN a ELSE NaN)
    ELSE IF IsInf(a) THEN a
    ELSE IF IsInf(b) THEN b
    ELSE LET g == Gcd(a[2], b[2])
         IN RNorm(a[1] * (b[2] \div g) + b[1] * (a[2] \div g), (a[2] \div g) * b[2])

RSub(a, b) == RAdd(a, RNeg(b))

RMul(a, b) ==
    IF IsNaN(a) \/ IsNaN(b) THEN NaN
    ELSE IF IsInf(a) \/ IsInf(b)
         THEN (IF a[1] = 0 \/ b[1] = 0 THEN NaN ELSE <<Sign(a[1]) * Sign(b[1]), 0>>)
    ELSE LET g1 == Gcd(Abs(a[1]), b[2])
             g2 == Gcd(Abs(b[1]), a[2])
             h1 == IF g1 = 0 THEN 1 ELSE g1
             h2 == IF g2 = 0 THEN 1 ELSE g2
         IN RNorm((a[1] \div h1) * (b[1] \div h2), (a[2] \div h2) * (b[2] \div h1))

RDiv(a, b) ==
    IF IsNaN(a) \/ IsNaN(b) THEN NaN
    ELSE IF IsInf(a) THEN (IF IsInf(b) THEN NaN
                           ELSE <<a[1] * (IF b[1] < 0 THEN -1 ELSE 1), 0>>)
    ELSE IF IsInf(b) THEN <<0, 1>>
    ELSE IF b[1] = 0 THEN (IF a[1] = 0 THEN NaN ELSE <<Sign(a[1]), 0>>)
    ELSE RMul(a, IF b[1] < 0 THEN <<-b[2], -b[1]>> ELSE <<b[2], b[1]>>)

\* a < b as floats compare: every comparison with NaN is false.
RLt(a, b) ==
    IF IsNaN(a) \/ IsNaN(b) THEN FALSE
    ELSE IF IsInf(a) \/ IsInf(b)
         THEN (IF IsInf(a) /\ IsInf(b) THEN a[1] < b[1]
               ELSE IF IsInf(a) THEN a[1] < 0 ELSE b[1] > 0)
    ELSE a[1] * b[2] < b[1] * a[2]

RGt(a, b) == RLt(b, a)
RLe(a, b) == ~IsNaN(a) /\ ~IsNaN(b) /\ ~RLt(b, a)
RGe(a, b) == RLe(b, a)

RAbs(a) == IF IsNaN(a) THEN NaN ELSE <<Abs(a[1]), a[2]>>

\* numpy.maximum: NaN if either operand is NaN.
RMax(a, b) == IF IsNaN(a) \/ IsNaN(b) THEN NaN ELSE IF RLt(a, b) THEN b ELSE a

(***************************************************************************)
(* pandas Series helpers.  A series is a sequence, index 1 is row 0.        *)
(***************************************************************************)
\* Series.rolling(window=period).mean(): NaN until `period` rows exist and
\* whenever a NaN lies in the window.
rolling_mean(s, period, i) ==
    IF i < period \/ \E k \in (i - period + 1)..i : IsNaN(s[k]) THEN NaN
    ELSE LET sum[k \in (i - period)..i] ==
                 IF k = i - period THEN <<0, 1>> ELSE RAdd(sum[k - 1], s[k])
         IN RDiv(sum[i], RInt(period))

\* Series.diff(): row 0 is NaN.
diff(s, i) == IF i = 1 THEN NaN ELSE RSub(s[i], s[i - 1])

\* Series.shift(): row 0 is NaN.
shift(s, i) == IF i = 1 THEN NaN ELSE s[i - 1]

RSeq(ints) == [i \in 1..Len(ints) |-> RInt(ints[i])]


(***************************************************************************)
(* TechnicalIndicators.py.  Each calculate_* operator returns the series    *)
(* (a sequence as long as its input) the Python function returns.           *)
(***************************************************************************)
EMA_PERIODS == <<10, 20, 50, 100, 200>>
RSI_PERIOD == 14
ATR_PERIOD == 14
SUPERTREND_PERIOD == 10
SUPERTREND_MULTIPLIER == 3
VOLUME_SURGE_PERIOD == 20

\* A faulty variant: Wilder's smoothing, alpha = 1/period.
calculate_ema_wilder(prices, period) ==
    LET alpha == RNorm(1, period)
        beta == RSub(RInt(1), alpha)
        y[i \in 1..Len(prices)] ==
            IF i = 1 THEN prices[1]
            ELSE RAdd(RMul(alpha, prices[i]), RMul(beta, y[i - 1]))
    IN [i \in 1..Len(prices) |-> y[i]]

\* prices.ewm(span=period, adjust=False).mean(): y[0] = x[0],
\* y[i] = alpha*x[i] + (1-alpha)*y[i-1] with alpha = 2/(period+1).
calculate_ema(prices, period) ==
    LET alpha == RNorm(2, period + 1)
        beta == RSub(RInt(1), alpha)
        y[i \in 1..Len(prices)] ==
            IF i = 1 THEN prices[1]
            ELSE RAdd(RMul(alpha, prices[i]), RMul(beta, y[i - 1]))
    IN [i \in 1..Len(prices) |-> y[i]]

\* A faulty variant: a zero average loss is masked before the division
\* (avg_losses.replace(0, np.nan)), so that rs and rsi are null there.
calculate_rsi_zero_loss_masked(prices, period) ==
    LET n == Len(prices)
        delta == [i \in 1..n |-> diff(prices, i)]
        gains == [i \in 1..n |-> IF RGt(delta[i], RInt(0)) THEN delta[i] ELSE RInt(0)]
        losses == [i \in 1..n |-> IF RLt(delta[i], RInt(0)) THEN RNeg(delta[i]) ELSE RInt(0)]
        masked(a) == IF a = RInt(0) THEN NaN ELSE a
        rs(i) == RDiv(rolling_mean(gains, period, i),
                      masked(rolling_mean(losses, period, i)))
    IN [i \in 1..n |-> RSub(RInt(100), RDiv(RInt(100), RAdd(RInt(1), rs(i))))]

calculate_rsi(prices, period) ==
    LET n == Len(prices)
        delta == [i \in 1..n |-> diff(prices, i)]
        \* delta.where(delta > 0, 0): NaN > 0 is false, so row 0 becomes 0.
        gains == [i \in 1..n |-> IF RGt(delta[i], RInt(0)) THEN delta[i] ELSE RInt(0)]
        losses == [i \in 1..n |-> IF RLt(delta[i], RInt(0)) THEN RNeg(delta[i]) ELSE RInt(0)]
        rs(i) == RDiv(rolling_mean(gains, period, i), rolling_mean(losses, period, i))
    IN [i \in 1..n |-> RSub(RInt(100), RDiv(RInt(100), RAdd(RInt(1), rs(i))))]

\* A true range that skips the undefined previous close of row 0 and takes
\* high - low there.
calculate_atr_skipping_nulls(high, low, close, period) ==
    LET n == Len(close)
        hl(i) == RSub(high[i], low[i])
        hc(i) == RAbs(RSub(high[i], shift(close, i)))
        lc(i) == RAbs(RSub(low[i], shift(close, i)))
        true_range == [i \in 1..n |-> IF i = 1 THEN hl(i)
                                      ELSE RMax(hl(i), RMax(hc(i), lc(i)))]
    IN [i \in 1..n |-> rolling_mean(true_range, period, i)]

calculate_atr(high, low, close, period) ==
    LET n == Len(close)
        hl(i) == RSub(high[i], low[i])
        hc(i) == RAbs(RSub(high[i], shift(close, i)))
        lc(i) == RAbs(RSub(low[i], shift(close, i)))
        true_range == [i \in 1..n |-> RMax(hl(i), RMax(hc(i), lc(i)))]
    IN [i \in 1..n |-> rolling_mean(true_range, period, i)]

\* Lines 119-129: the band carried forward from the previous row unless the
\* new band is tighter or the previous close had crossed it.
final_upper(upper_i, upper_prev, close_prev) ==
    IF RLt(upper_i, upper_prev) \/ RGt(close_prev, upper_prev) THEN upper_i ELSE upper_prev

final_lower(lower_i, lower_prev, close_prev) ==
    IF RGt(lower_i, lower_prev) \/ RLt(close_prev, lower_prev) THEN lower_i ELSE lower_prev

\* A trend read off the close of the row alone, without the previous trend.
next_trend_by_close(prev, close_i, fu, fl) ==
    IF RLe(close_i, fl) THEN -1 ELSE 1

\* A transition that needs the close strictly beyond the band.
next_trend_strict(prev, close_i, fu, fl) ==
    IF prev = 1 /\ RLt(close_i, fl) THEN -1
    ELSE IF prev = -1 /\ RGt(close_i, fu) THEN 1
    ELSE prev

\* Lines 131-137: trend 1 = Uptrend, -1 = Downtrend.
next_trend(prev, close_i, fu, fl) ==
    IF prev = 1 /\ RLe(close_i, fl) THEN -1
    ELSE IF prev = -1 /\ RGe(close_i, fu) THEN 1
    ELSE prev

\* Lines 139-143.
supertrend_value(trend, fu, fl) == IF trend = 1 THEN fl ELSE fu

\* Lines 114-143 over the two band series: row i is <<supertrend, trend,
\* final_upper, final_lower>>, the two series and the two locals of the loop
\* (row 0 assigns neither local: NaN stands for the unassigned name).
supertrend_loop(upper_band, lower_band, close) ==
    LET n == Len(close)
        st[i \in 1..n] ==
            IF i = 1 THEN <<upper_band[1], 1, NaN, NaN>>
            ELSE LET fu == final_upper(upper_band[i], upper_band[i - 1], close[i - 1])
                     fl == final_lower(lower_band[i], lower_band[i - 1], close[i - 1])
                     trend == next_trend(st[i - 1][2], close[i], fu, fl)
                 IN <<supertrend_value(trend, fu, fl), trend, fu, fl>>
    IN [i \in 1..n |-> st[i]]

\* Lines 103-108: hl2 +/- multiplier * atr.
band(high, low, atr, multiplier, sign) ==
    [i \in 1..Len(atr) |->
        RAdd(RDiv(RAdd(high[i], low[i]), RInt(2)),
             RMul(RInt(sign * multiplier), atr[i]))]

supertrend_bands(high, low, atr, multiplier) ==
    <<band(high, low, atr, multiplier, 1), band(high, low, atr, multiplier, -1)>>

supertrend_of_bands(bands, close) == supertrend_loop(bands[1], bands[2], close)

\* The rows <<supertrend, trend, final_upper, final_lower>> of
\* calculate_supertrend.
supertrend_rows(high, low, close, period, multiplier) ==
    supertrend_of_bands(
        supertrend_bands(high, low, calculate_atr(high, low, close, period), multiplier),
        close)

FirstOfEach(rows) == [i \in 1..Len(rows) |-> rows[i][1]]

calculate_supertrend(high, low, close, period, multiplier) ==
    FirstOfEach(supertrend_rows(high, low, close, period, multiplier))

\* A faulty variant: the running total starts at the first row's volume.
calculate_obv_from_first_volume(close, volume) ==
    LET n == Len(close)
        obv[i \in 1..n] ==
            LET change == diff(close, i)
                prev == IF i = 1 THEN volume[1] ELSE obv[i - 1]
            IN IF IsNaN(change) THEN prev
               ELSE IF RGt(change, RInt(0)) THEN RAdd(prev, volume[i])
               ELSE IF RLt(change, RInt(0)) THEN RSub(prev, volume[i])
               ELSE prev
    IN [i \in 1..n |-> obv[i]]

calculate_obv(close, volume) ==
    LET n == Len(close)
        obv[i \in 1..n] ==
            LET change == diff(close, i)
                prev == IF i = 1 THEN RInt(0) ELSE obv[i - 1]
            IN IF IsNaN(change) THEN prev
               ELSE IF RGt(change, RInt(0)) THEN RAdd(prev, volume[i])
               ELSE IF RLt(change, RInt(0)) THEN RSub(prev, volume[i])
               ELSE prev
    IN [i \in 1..n |-> obv[i]]

\* mfm.fillna(0) replaces NaN (0/0) only; mfv.cumsum() skips NaN rows
\* (the row stays NaN, the running sum is carried past it).
calculate_ad_line(high, low, close, volume) ==
    LET n == Len(close)
        mfm0(i) == RDiv(RSub(RSub(close[i], low[i]), RSub(high[i], close[i])),
                        RSub(high[i], low[i]))
        mfm(i) == IF IsNaN(mfm0(i)) THEN RInt(0) ELSE mfm0(i)
        mfv == [i \in 1..n |-> RMul(mfm(i), volume[i])]
        run[i \in 0..n] ==
            IF i = 0 THEN RInt(0)
            ELSE IF IsNaN(mfv[i]) THEN run[i - 1] ELSE RAdd(run[i - 1], mfv[i])
    IN [i \in 1..n |-> IF IsNaN(mfv[i]) THEN NaN ELSE run[i]]

\* A faulty variant: the average is taken over the rows before row i
\* (volume.shift().rolling(window=period).mean()).
calculate_volume_surge_over_prior(volume, period) ==
    [i \in 1..Len(volume) |->
        IF i = 1 THEN NaN ELSE RDiv(volume[i], rolling_mean(volume, period, i - 1))]

calculate_volume_surge(volume, period) ==
    [i \in 1..Len(volume) |-> RDiv(volume[i], rolling_mean(volume, period, i))]

\* df is a sequence of price rows [date, Open, High, Low, Close, Volume].
Column(df, c) == [i \in 1..Len(df) |-> RInt(df[i][c])]

calculate_all_indicators(df) ==
    LET close == Column(df, "Close")
        high == Column(df, "High")
        low == Column(df, "Low")
        volume == Column(df, "Volume")
    IN [ema_10 |-> calculate_ema(close, EMA_PERIODS[1]),
        ema_20 |-> calculate_ema(close, EMA_PERIODS[2]),
        ema_50 |-> calculate_ema(close, EMA_PERIODS[3]),
        ema_100 |-> calculate_ema(close, EMA_PERIODS[4]),
        ema_200 |-> calculate_ema(close, EMA_PERIODS[5]),
        rsi |-> calculate_rsi(close, RSI_PERIOD),
        atr |-> calculate_atr(high, low, close, ATR_PERIOD),
        supertrend |-> calculate_supertrend(high, low, close,
                                            SUPERTREND_PERIOD, SUPERTREND_MULTIPLIER),
        obv |-> calculate_obv(close, volume),
        ad |-> calculate_ad_line(high, low, close, volume),
        volume_surge |-> calculate_volume_surge(volume, VOLUME_SURGE_PERIOD)]

INDICATOR_COLUMNS ==
    {"ema_10", "ema_20", "ema_50", "ema_100", "ema_200", "rsi", "atr",
     "supertrend", "obv", "ad", "volume_surge"}

(***************************************************************************)
(* Symbols.  A symbol is a sequence of name parts; ".NS" and ".BO" are the  *)
(* exchange suffixes.  symbol.replace('.NS','').replace('.BO','') removes   *)
(* every occurrence of each suffix.                                         *)
(***************************************************************************)
IsNotNS(part) == part # ".NS"
IsNotBO(part) == part # ".BO"
clean_symbol(symbol) == SelectSeq(SelectSeq(symbol, IsNotNS), IsNotBO)

\* One frame row per price row: the indicators at row i, keyed by the
\* cleaned ticker and the price row's date.
\* A faulty variant: reset_index(drop=True) taken before the date column is
\* copied from the index, so that 'date' holds the row number.
create_indicators_dataframe_reset_first(df, symbol) ==
    LET indicators == calculate_all_indicators(df)
    IN [i \in 1..Len(df) |->
          [c \in INDICATOR_COLUMNS |-> indicators[c][i]]
            @@ [ticker |-> clean_symbol(symbol), date |-> i - 1]]

create_indicators_dataframe(df, symbol) ==
    LET indicators == calculate_all_indicators(df)
    IN [i \in 1..Len(df) |->
          [c \in INDICATOR_COLUMNS |-> indicators[c][i]]
            @@ [ticker |-> clean_symbol(symbol), date |-> df[i].date]]


(***************************************************************************)
(* Bounds and inputs of the pipeline model.                                 *)
(***************************************************************************)
NDates == 3
MaxEnvSteps == 2
MaxRuns == 2
\* execute_values(..., page_size=1000): the model scales the page down so
\* that a batch of a few rows spans more than one page.
page_size == 2

\* timedelta(days=300), indicators_pipeline.py line 134.
WARMUP_DAYS == 300

\* Dates are day numbers >= 1; NoDate stands for Python's None.
NoDate == 0
\* Trading days: one old listing day, then recent consecutive days more
\* than WARMUP_DAYS later.
DateOf(k) == IF k = 1 THEN 1 ELSE WARMUP_DAYS + k
DateIndex(d) == IF d = 1 THEN 1 ELSE d - WARMUP_DAYS
Dates == {DateOf(k) : k \in 1..NDates}

SymXNS == <<"X", ".NS">>
SymXBO == <<"X", ".BO">>
SymYNS == <<"Y", ".NS">>
Symbols == {SymXNS, SymXBO, SymYNS}
Tickers == {clean_symbol(s) : s \in Symbols}
\* ORDER BY p.ticker, and the order of the source file.
TickerOrder == <<<<"X">>, <<"Y">>>>
\* The symbols of sources/<source_file>, as read_nifty_symbols returns them.
NiftyList == TickerOrder
AddNS(ticker) == Append(ticker, ".NS")

\* The price point of a symbol on a date, in its CSV file and in the rows
\* the stock pipeline upserts for it into stock_price_daily.
BaseClose(symbol) == IF symbol = SymXNS THEN 10 ELSE IF symbol = SymXBO THEN 11 ELSE 20
Wiggle(k) == IF k % 4 = 1 THEN 0 ELSE IF k % 4 = 2 THEN 2 ELSE IF k % 4 = 3 THEN 1 ELSE 3
PriceRow(symbol, d) ==
    LET k == DateIndex(d)
        c == BaseClose(symbol) + Wiggle(k)
        flat == symbol = SymYNS /\ k = 2
    IN [date |-> d, Open |-> c,
        High |-> IF flat THEN c ELSE c + 1,
        Low |-> IF flat THEN c ELSE c - 2,
        Close |-> c, Volume |-> 10 * k]

\* The elements of a set of dates in ascending order.
RECURSIVE SortedDates(_)
SortedDates(S) ==
    IF S = {} THEN <<>>
    ELSE LET m == CHOOSE x \in S : \A y \in S : x <= y
         IN <<m>> \o SortedDates(S \ {m})

MaxDate(S) == IF S = {} THEN NoDate ELSE CHOOSE x \in S : \A y \in S : y <= x

Range(f) == {f[i] : i \in DOMAIN f}

(***************************************************************************)
(* State.                                                                   *)
(***************************************************************************)
VARIABLES
    config,         \* [db_enabled, db_update_enabled], read once by main
    price_db,       \* stock_price_daily: ticker -> its rows, a row being its date and
                    \* the symbol whose prices it holds
    csv,            \* <data_file_path>/<symbol>.csv: symbol -> the dates of its rows
                    \* ({} = no file, or a file of the header line only)
    store,          \* stock_indicators_daily: a set of rows
    run,            \* the process_single_symbol call in progress
    tx,             \* rows written by the open transaction, not yet committed
    batch,          \* the update_all_symbols call in progress
    last,           \* the symbol of the run just completed, when it was an Incremental-mode
                    \* call that reported success and no price of the symbol has
                    \* changed since it started; else <<>>
    env_steps,      \* stock-pipeline calls made so far
    stock,          \* the stock pipeline's process_single_symbol call in progress
    stock_sync,     \* the stock pipeline's sync_single_symbol call in progress
    runs,           \* process_single_symbol calls of the indicators pipeline so far
    computed,       \* history: the calculations made over the price window calculated
                    \* last, each with the symbol, the window and the rows returned;
                    \* it starts again when a run returns with no rows committed
    calc,           \* a calculator called on its own: the frame it is given
                    \* and the series it returned
    session,        \* an IndicatorsWriter operation called on its own and the
                    \* database connections that are open
    fetcher,        \* the ScriptDataFetcher.fetch_historical_data[_from_date]
                    \* call in progress
    multi,          \* the fetch_multiple_historical_data call in progress
    syncer          \* the sync_symbol_data call in progress and its CSV file

vars == <<config, price_db, csv, store, run, tx, batch, last, env_steps, stock, stock_sync, runs, computed, calc,
          session, fetcher, multi, syncer>>

io_vars == <<session, fetcher, multi, syncer>>

\* The configurations configs/config.json is read as (ConfigReader.py lines
\* 100-122); each process reads the file when it starts.
Configs == {[db_enabled |-> TRUE, db_update_enabled |-> TRUE],
            [db_enabled |-> TRUE, db_update_enabled |-> FALSE],
            [db_enabled |-> FALSE, db_update_enabled |-> TRUE]}

IdleRun ==
    [pc |-> "idle", symbol |-> <<>>, force_recalculate |-> FALSE, from_date |-> NoDate,
     latest_indicators_date |-> NoDate, target_from_date |-> NoDate,
     warmup_from_date |-> NoDate, data_source |-> "none", price_data |-> <<>>, indicators_df |-> <<>>,
     data_tuples |-> <<>>, page |-> 0, result |-> FALSE,
     upsert_called |-> FALSE, upsert_raised |-> FALSE, written |-> {},
     store_before |-> {}, prices_before |-> [db |-> {}, csv |-> {}]]

IdleBatch ==
    [pc |-> "idle", force_recalculate |-> FALSE, from_date |-> NoDate,
     symbols |-> <<>>, i |-> 0, success_count |-> 0, error_count |-> 0,
     listed |-> FALSE, processed |-> <<>>, results |-> <<>>]

NoLast == <<>>

\* No call of the stock pipeline is in progress.
NoStock == [pc |-> "idle", symbol |-> <<>>, data |-> {}]

\* No sync_single_symbol call is in progress.
NoStockSync == [pc |-> "idle", symbol |-> <<>>, df |-> {}]

\* No calculator has been called outside the pipeline.
NoCalc == [motif |-> <<>>, df |-> <<>>, indicator |-> "none", period |-> 0,
           values |-> <<>>, trace |-> <<>>]

\* No writer operation has been called on its own; no connection is open.
NoSession == [op |-> "none", pc |-> "idle", open |-> 0, outcome |-> "none"]

\* No fetch is in progress.
NoFetch == [pc |-> "idle", fn |-> "none", retries |-> 0, history |-> <<>>,
            slept |-> 0, outcome |-> "none", value |-> <<>>]

\* No batch fetch is in progress.
NoMulti == [pc |-> "idle", symbols |-> <<>>, retries |-> 0, i |-> 0, attempt |-> 0,
            log |-> <<>>, saved |-> {}]

\* No CSV sync is in progress.
NoSync == [pc |-> "idle", exists |-> FALSE, file |-> <<>>, today |-> 0, df |-> <<>>,
           last_date |-> 0, fetched |-> <<>>, new_data |-> <<>>, alert |-> FALSE,
           outcome |-> "none", writes |-> 0]

IoAtRest ==
    /\ session = NoSession
    /\ fetcher = NoFetch
    /\ multi = NoMulti
    /\ syncer = NoSync

Init ==
    /\ config \in Configs
    /\ price_db = [t \in Tickers |-> {}]
    /\ csv = [s \in Symbols |-> {}]
    /\ store = {}
    /\ run = IdleRun
    /\ tx = {}
    /\ batch = IdleBatch
    /\ last = NoLast
    /\ env_steps = 0
    /\ stock = NoStock
    /\ stock_sync = NoStockSync
    /\ computed = <<>>
    /\ runs = 0
    /\ calc = NoCalc
    /\ IoAtRest

(***************************************************************************)
(* The writers of the price files and of stock_price_daily, the price       *)
(* sources of this core, in steps.  They are other processes: nothing       *)
(* keeps them out of a running indicators run or batch, nor out of each     *)
(* other.                                                                   *)
(*   stock_pipeline.py process_single_symbol(symbol, data_dir, config)      *)
(*     StockSave          lines 48-77   the source answers from start_date  *)
(*                                      on and the CSV file is overwritten  *)
(*     StockUpsertPrices  lines 78-98   stocks and stock_price_daily        *)
(*   stock_pipeline.py sync_single_symbol -> sync_symbol_data               *)
(*     StockSyncRead      the file is read (NiftyScriptsDataSyncer.py       *)
(*                        lines 177-199)                                    *)
(*     StockSyncWrite     the source answers from the last date read and    *)
(*                        the rows read plus the new ones are written       *)
(*                        (lines 201-230)                                   *)
(*   main.py main(), --mode single (lines 94-113), and Runner.py            *)
(*     SingleModeSave     the source answers and the file is overwritten,   *)
(*                        whatever the answer                               *)
(* sync_nifty_scripts_data (NiftyScriptsDataSyncer.py lines 78-82) writes   *)
(* a file that does not exist through the same save_data_to_csv as          *)
(* StockSave, with the same answer of the source.                           *)
(***************************************************************************)
Quiescent == run.pc = "idle" /\ batch.pc = "idle"

\* ticker.history(start=config.start_date): nothing; or the trading days
\* from the first one to the latest, which is the last day or the day
\* before it; or, the start date moved on, the days from the second one.
SourceAnswers ==
    {{DateOf(k) : k \in 1..hi} : hi \in {0, NDates - 1, NDates}}
      \cup {{DateOf(k) : k \in 2..NDates}}

\* PostgresWriter.py lines 145-161 and 169-181: one tuple per row of the
\* frame under the cleaned symbol, ON CONFLICT (ticker, date) DO UPDATE.
upsert_stock_price_data(table, data, symbol) ==
    [table EXCEPT ![clean_symbol(symbol)] =
        {r \in @ : r.date \notin data} \cup {[date |-> d, symbol |-> symbol] : d \in data}]

\* FileHandler.save_data_to_csv, data.to_csv(filename): the file holds the
\* frame and nothing else.
save_data_to_csv(files, data, symbol) == [files EXCEPT ![symbol] = data]

\* Lines 63-77: the source answers, the file is written and the database
\* flags of the config argument are read.  The fetch reads nothing the
\* other processes write, so it is taken together with the write that
\* follows it.  An empty answer returns False (line 67) and so does a
\* to_csv that raises (fail, the except clause of line 100).
StockSave(symbol, cfg, data, fail) ==
    /\ stock.pc = "idle"
    /\ env_steps < MaxEnvSteps
    /\ fail => data # {}
    /\ csv' = IF data = {} \/ fail THEN csv ELSE save_data_to_csv(csv, data, symbol)
    /\ stock' = IF data # {} /\ ~fail /\ cfg.db_enabled /\ cfg.db_update_enabled
                THEN [pc |-> "saved", symbol |-> symbol, data |-> data]
                ELSE NoStock
    /\ env_steps' = env_steps + 1
    /\ last' = IF last # NoLast /\ csv'[last] # csv[last] THEN NoLast ELSE last
    /\ UNCHANGED <<calc, io_vars, computed, stock_sync, runs, config, price_db, store, run, tx, batch>>

\* Lines 84-98: upsert_stock_metadata, then upsert_stock_price_data; a
\* failure of either is caught at line 94 and the call returns True.  The
\* INSERT of PostgresWriter.py lines 170-172 names eleven columns for
\* tuples of nine values: PostgreSQL rejects it and the table stays as it
\* was (accepted = FALSE); a database that takes the statement upserts one
\* row per row of the frame (accepted = TRUE).
StockUpsertPrices(accepted) ==
    /\ stock.pc = "saved"
    /\ price_db' = IF accepted THEN upsert_stock_price_data(price_db, stock.data, stock.symbol)
                   ELSE price_db
    /\ stock' = NoStock
    /\ last' = IF last # NoLast /\ price_db'[clean_symbol(last)] # price_db[clean_symbol(last)]
                 THEN NoLast ELSE last
    /\ UNCHANGED <<calc, io_vars, computed, stock_sync, runs, config, csv, store, run, tx, batch, env_steps>>

\* stock_pipeline.sync_single_symbol, line 197: sync_symbol_data(symbol,
\* data_dir, db_table=None) on the same file.  NiftyScriptsDataSyncer.py
\* lines 177-187: without a file, or with a file without rows, it returns;
\* else the rows are read and the source is asked for the days from the
\* last date of the file on (lines 190-202).
StockSyncRead(symbol) ==
    /\ stock_sync.pc = "idle"
    /\ env_steps < MaxEnvSteps
    /\ stock_sync' = IF csv[symbol] = {} THEN NoStockSync
                     ELSE [pc |-> "fetching", symbol |-> symbol, df |-> csv[symbol]]
    /\ env_steps' = env_steps + 1
    /\ UNCHANGED <<calc, io_vars, computed, stock, runs, config, price_db, csv, store, run, tx, batch, last>>

\* Lines 202-230: the source answers; the first row of its answer is
\* dropped and the rest is put behind the rows read earlier, and that frame
\* is written over the file, whatever was written to it since it was read.
\* With an empty answer or an answer of one row nothing is written.
StockSyncWrite(answer) ==
    LET last_date == MaxDate(stock_sync.df)
        new_data == {d \in answer : d >= last_date}
        rest == new_data \ {CHOOSE d \in new_data : \A x \in new_data : d <= x}
    IN /\ stock_sync.pc = "fetching"
       /\ csv' = IF new_data = {} \/ rest = {} THEN csv
                 ELSE [csv EXCEPT ![stock_sync.symbol] = stock_sync.df \cup rest]
       /\ stock_sync' = NoStockSync
       /\ last' = IF last # NoLast /\ csv'[last] # csv[last] THEN NoLast ELSE last
       /\ UNCHANGED <<calc, io_vars, computed, stock, runs, config, price_db, store, run, tx, batch, env_steps>>

\* main.py lines 106-113 (--mode single) and Runner.py lines 35-40:
\* fetch_historical_data, then save_data_to_csv on its answer without a
\* look at it: an answer without rows leaves a file of the header line.
\* No database is written.
SingleModeSave(symbol, data) ==
    /\ env_steps < MaxEnvSteps
    /\ csv' = save_data_to_csv(csv, data, symbol)
    /\ env_steps' = env_steps + 1
    /\ last' = IF last # NoLast /\ csv'[last] # csv[last] THEN NoLast ELSE last
    /\ UNCHANGED <<calc, io_vars, computed, stock, stock_sync, runs, config, price_db, store, run, tx, batch>>

\* The dates of the rows of a ticker in stock_price_daily.
PriceDates(table, ticker) == {r.date : r \in table[ticker]}

(***************************************************************************)
(* IndicatorsWriter.py: reads.                                              *)
(***************************************************************************)
\* SELECT MAX(date) FROM stock_indicators_daily WHERE ticker = clean_symbol.
get_latest_indicators_date(symbol) ==
    MaxDate({r.date : r \in {x \in store : x.ticker = clean_symbol(symbol)}})

\* SELECT MAX(date) FROM stock_price_daily WHERE ticker = clean_symbol.
get_latest_price_date(symbol) == MaxDate(PriceDates(price_db, clean_symbol(symbol)))

\* SELECT ... WHERE ticker = clean_symbol [AND date >= start_date] ORDER BY date.
fetch_price_data_from_db(symbol, start_date) ==
    LET ticker == clean_symbol(symbol)
        ds == {d \in PriceDates(price_db, ticker) : start_date # NoDate => d >= start_date}
        sorted == SortedDates(ds)
        stored(d) == CHOOSE r \in price_db[ticker] : r.date = d
    IN [i \in 1..Len(sorted) |-> PriceRow(stored(sorted[i]).symbol, sorted[i])]

\* Tickers with price rows whose latest price date is after their latest
\* indicator date (COALESCE(..., '1900-01-01') when they have none).
get_symbols_needing_indicators_update ==
    LET needs(t) == /\ price_db[t] # {}
                    /\ MaxDate(PriceDates(price_db, t)) > get_latest_indicators_date(t)
    IN SelectSeq(TickerOrder, needs)

(***************************************************************************)
(* indicators_pipeline.py: load_price_data_from_csv.                        *)
(***************************************************************************)
csv_exists(symbol) == symbol \in DOMAIN csv /\ csv[symbol] # {}

load_price_data_from_csv(symbol, from_date) ==
    LET ds == {d \in csv[symbol] : from_date # NoDate => d >= from_date}
        sorted == SortedDates(ds)
    IN [i \in 1..Len(sorted) |-> PriceRow(symbol, sorted[i])]

(***************************************************************************)
(* IndicatorsWriter.py: upsert_indicators_data.                             *)
(***************************************************************************)
\* float(x) if pd.notna(x) else None
ToSql(v) == IF IsNaN(v) THEN SqlNull ELSE v

data_tuple(row) ==
    [c \in DOMAIN row |-> IF c \in INDICATOR_COLUMNS THEN ToSql(row[c]) ELSE row[c]]

SameKey(a, b) == a.ticker = b.ticker /\ a.date = b.date

\* A faulty variant: ON CONFLICT (ticker, date) DO NOTHING.
OnConflictDoNothing(old, new) == old

\* A faulty variant: obv = stock_indicators_daily.obv + EXCLUDED.obv.
OnConflictAccumulate(old, new) ==
    [c \in DOMAIN old |-> IF c = "obv" THEN RAdd(old[c], new[c])
                          ELSE IF c \in INDICATOR_COLUMNS THEN new[c] ELSE old[c]]

\* ON CONFLICT (ticker, date) DO UPDATE SET <every indicator column> = EXCLUDED.<column>
OnConflictUpdate(old, new) ==
    [c \in DOMAIN old |-> IF c \in INDICATOR_COLUMNS THEN new[c] ELSE old[c]]

\* A faulty variant: a plain INSERT on a table without the (ticker, date) key.
InsertWithoutKey(table, rows) == table \cup rows

\* A faulty variant: DELETE ... WHERE ticker = %s, then INSERT.
DeleteThenInsert(table, rows) ==
    {r \in table : \A n \in rows : r.ticker # n.ticker} \cup rows

\* One INSERT ... ON CONFLICT statement applied to a table.
InsertOnConflict(table, rows) ==
    {r \in table : \A n \in rows : ~SameKey(r, n)}
      \cup {OnConflictUpdate(o, n) : <<o, n>> \in {p \in table \X rows : SameKey(p[1], p[2])}}
      \cup {n \in rows : \A r \in table : ~SameKey(r, n)}

NumPages(tuples) == (Len(tuples) + page_size - 1) \div page_size

PageRows(tuples, k) ==
    {tuples[j] : j \in {j \in 1..Len(tuples) : (k - 1) * page_size < j /\ j <= k * page_size}}

\* A faulty variant: conn.autocommit = True, every page is visible at once.
VisibleWithAutocommit(committed, view) == view

\* What other connections see while the transaction is open: psycopg2 opens
\* a transaction implicitly and nothing is visible before conn.commit().
VisibleDuringTransaction(committed, view) == committed

(***************************************************************************)
(* indicators_pipeline.py: process_single_symbol, in steps.                 *)
(*   ProcessStart  lines 105-150  cursor, warmup window, price load         *)
(*   Compute       lines 152-183  indicators and slicing                    *)
(*   Save          lines 185-194  and the writer up to get_connection       *)
(*   ExecutePage, Commit          execute_values and conn.commit()          *)
(*   Return                       the caller receives the result            *)
(***************************************************************************)
\* A faulty variant: a margin of 200 days, the longest period itself.
warmup_of_max_period(target_from_date) == target_from_date - 200

\* Line 134: warmup_from_date = target_from_date - timedelta(days=300).
warmup_from_date(target_from_date) == target_from_date - WARMUP_DAYS

Finish(r, result) == [r EXCEPT !.pc = "done", !.result = result]

\* The prices of a symbol as the two sources hold them.
PricesOf(symbol) == [db |-> price_db[clean_symbol(symbol)], csv |-> csv[symbol]]

ProcessStart(symbol, force_recalculate, from_date, cursor_fail, fetch_fail) ==
    LET use_db == config.db_enabled /\ ~force_recalculate
        ask_cursor == use_db /\ from_date = NoDate
        latest == IF ask_cursor /\ ~cursor_fail THEN get_latest_indicators_date(symbol)
                  ELSE NoDate
        target == IF ~use_db THEN NoDate
                  ELSE IF from_date # NoDate THEN from_date
                  ELSE IF latest # NoDate THEN latest + 1
                  ELSE NoDate
        warmup == IF target # NoDate THEN warmup_from_date(target) ELSE NoDate
        from_db == use_db /\ ~fetch_fail
        r0 == [IdleRun EXCEPT !.symbol = symbol,
                              !.force_recalculate = force_recalculate,
                              !.from_date = from_date,
                              !.latest_indicators_date = latest,
                              !.target_from_date = target,
                              !.warmup_from_date = warmup,
                              !.store_before = store,
                              !.prices_before = PricesOf(symbol)]
    IN /\ run.pc = "idle"
       /\ runs < MaxRuns
       /\ runs' = runs + 1
       /\ cursor_fail => ask_cursor
       /\ fetch_fail => use_db
       /\ IF from_db
          THEN LET df == fetch_price_data_from_db(symbol, warmup)
               IN run' = [r0 EXCEPT !.pc = "loaded", !.price_data = df,
                                    !.data_source = "database"]
          ELSE IF ~csv_exists(symbol)
               THEN \* FileNotFoundError
                    run' = Finish(r0, FALSE)
               ELSE LET df == load_price_data_from_csv(symbol, from_date)
                    IN run' = [r0 EXCEPT !.pc = "loaded", !.price_data = df,
                                         !.data_source = "CSV"]

\* indicators_df[pd.to_datetime(indicators_df['date']) >= target_from_pd]
SliceFrom(df, target) ==
    LET keep(row) == row.date >= target IN SelectSeq(df, keep)

\* Lines 163-183 on the calculated frame.
AfterCalculation(r, full) ==
    IF full = <<>> THEN Finish(r, FALSE)
    ELSE IF r.target_from_date # NoDate /\ r.data_source = "database"
    THEN LET sliced == SliceFrom(full, r.target_from_date)
         IN IF sliced = <<>> THEN Finish(r, TRUE)
            ELSE [r EXCEPT !.pc = "save", !.indicators_df = sliced]
    ELSE [r EXCEPT !.pc = "save", !.indicators_df = full]

\* Two calculations over the same ordered price window of a symbol.
SameWindow(a, b) == a.symbol = b.symbol /\ a.price_data = b.price_data

\* Lines 152-183: an empty window ends the run; otherwise
\* create_indicators_dataframe(price_data, symbol) is called once, and the
\* frame it returns is both the entry of the history and the frame the run
\* goes on with.
Compute ==
    /\ run.pc = "loaded"
    /\ computed' = IF run.price_data = <<>> THEN computed
                   ELSE Append(SelectSeq(computed, LAMBDA c : SameWindow(c, run)),
                               [symbol |-> run.symbol, price_data |-> run.price_data,
                                df |-> create_indicators_dataframe(run.price_data, run.symbol)])
    /\ run' = IF run.price_data = <<>> THEN Finish(run, FALSE)
              ELSE AfterCalculation(run, computed'[Len(computed')].df)
    /\ UNCHANGED <<calc, io_vars, stock, stock_sync, runs, config, price_db, csv, store, tx, batch, last, env_steps>>

Save(connect_fail) ==
    /\ run.pc = "save"
    /\ IF ~config.db_enabled
       THEN /\ ~connect_fail
            /\ run' = Finish(run, TRUE)
            /\ tx' = tx
       ELSE IF ~config.db_update_enabled
       THEN /\ ~connect_fail
            /\ run' = Finish([run EXCEPT !.upsert_called = TRUE], TRUE)
            /\ tx' = tx
       ELSE IF connect_fail
       THEN /\ run' = Finish([run EXCEPT !.upsert_called = TRUE, !.upsert_raised = TRUE], FALSE)
            /\ tx' = tx
       ELSE /\ run' = [run EXCEPT !.pc = "tx", !.upsert_called = TRUE, !.page = 1,
                         !.data_tuples = [i \in 1..Len(run.indicators_df) |->
                                             data_tuple(run.indicators_df[i])]]
            /\ tx' = store
    /\ UNCHANGED <<calc, io_vars, computed, stock, stock_sync, runs, config, price_db, csv, store, batch, last, env_steps>>

\* One page of execute_values; a failing statement ends in conn.rollback().
ExecutePage(fail) ==
    /\ run.pc = "tx"
    /\ run.page <= NumPages(run.data_tuples)
    /\ IF fail
       THEN /\ run' = Finish([run EXCEPT !.upsert_raised = TRUE], FALSE)
            /\ tx' = {}
            /\ store' = store
       ELSE LET view == InsertOnConflict(tx, PageRows(run.data_tuples, run.page))
            IN /\ run' = [run EXCEPT !.page = @ + 1]
               /\ tx' = view
               /\ store' = VisibleDuringTransaction(store, view)
    /\ UNCHANGED <<calc, io_vars, computed, stock, stock_sync, runs, config, price_db, csv, batch, last, env_steps>>

Commit(fail) ==
    /\ run.pc = "tx"
    /\ run.page > NumPages(run.data_tuples)
    /\ IF fail
       THEN /\ run' = Finish([run EXCEPT !.upsert_raised = TRUE], FALSE)
            /\ store' = store
       ELSE /\ run' = Finish([run EXCEPT !.written = Range(run.data_tuples)], TRUE)
            /\ store' = tx
    /\ tx' = {}
    /\ UNCHANGED <<calc, io_vars, computed, stock, stock_sync, runs, config, price_db, csv, batch, last, env_steps>>


\* A run in the spec's Incremental/ColdStart family: database enabled, no
\* force_recalculate, no explicit from-date.
IsIncrementalCall(r) ==
    config.db_enabled /\ ~r.force_recalculate /\ r.from_date = NoDate

\* A faulty variant: the loop breaks at the first symbol that fails.
CountResultBreakOnError(b, symbol, success) ==
    [b EXCEPT !.success_count = IF success THEN @ + 1 ELSE @,
              !.error_count = IF success THEN @ ELSE @ + 1,
              !.processed = Append(@, symbol),
              !.results = Append(@, success),
              !.i = @ + 1,
              !.pc = IF ~success \/ b.i + 1 > Len(b.symbols) THEN "done" ELSE "loop"]

\* update_all_symbols lines 249-253: the loop counts the result.
CountResult(b, symbol, success) ==
    [b EXCEPT !.success_count = IF success THEN @ + 1 ELSE @,
              !.error_count = IF success THEN @ ELSE @ + 1,
              !.processed = Append(@, symbol),
              !.results = Append(@, success),
              !.i = @ + 1,
              !.pc = IF b.i + 1 > Len(b.symbols) THEN "done" ELSE "loop"]

Return ==
    /\ run.pc = "done"
    /\ batch' = IF batch.pc = "loop" THEN CountResult(batch, run.symbol, run.result)
                ELSE batch
    /\ last' = IF IsIncrementalCall(run) /\ run.result
                    /\ PricesOf(run.symbol) = run.prices_before
                 THEN run.symbol ELSE NoLast
    /\ run' = IdleRun
    /\ computed' = IF run.written # {} THEN computed ELSE <<>>
    /\ UNCHANGED <<calc, io_vars, stock, stock_sync, runs, config, price_db, csv, store, tx, env_steps>>

(***************************************************************************)
(* main, single mode: process_single_symbol(args.symbol, config, False,     *)
(* from_date).                                                              *)
(***************************************************************************)
SingleStart(symbol, from_date, cursor_fail, fetch_fail) ==
    /\ Quiescent
    /\ ProcessStart(symbol, FALSE, from_date, cursor_fail, fetch_fail)
    /\ UNCHANGED <<calc, io_vars, computed, stock, stock_sync, config, price_db, csv, store, tx, batch, last, env_steps>>

(***************************************************************************)
(* update_all_symbols.                                                      *)
(***************************************************************************)
\* Lines 219-244: the symbol list.  list_fail: the database query raises
\* (nothing in update_all_symbols catches it); source_missing: the source
\* file does not exist.
BatchStart(force_recalculate, from_date, list_fail, source_missing) ==
    LET b0 == [IdleBatch EXCEPT !.force_recalculate = force_recalculate,
                                !.from_date = from_date]
        use_db == config.db_enabled /\ ~force_recalculate
        symbols == IF use_db
                   THEN LET ts == get_symbols_needing_indicators_update
                        IN [k \in 1..Len(ts) |-> AddNS(ts[k])]
                   ELSE [k \in 1..Len(NiftyList) |-> AddNS(NiftyList[k])]
    IN /\ Quiescent
       /\ list_fail => use_db
       /\ source_missing => ~use_db
       /\ batch' = IF list_fail THEN [b0 EXCEPT !.pc = "raised"]
                   ELSE IF source_missing THEN [b0 EXCEPT !.pc = "done", !.error_count = 1]
                   ELSE IF symbols = <<>> THEN [b0 EXCEPT !.pc = "done", !.listed = TRUE]
                   ELSE [b0 EXCEPT !.pc = "loop", !.listed = TRUE,
                                   !.symbols = symbols, !.i = 1]
       /\ UNCHANGED <<calc, io_vars, computed, stock, stock_sync, runs, config, price_db, csv, store, run, tx, last, env_steps>>

\* Line 249: the loop calls process_single_symbol for the next symbol.
BatchCall(cursor_fail, fetch_fail) ==
    /\ batch.pc = "loop"
    /\ batch.i <= Len(batch.symbols)
    /\ ProcessStart(batch.symbols[batch.i], batch.force_recalculate, batch.from_date,
                    cursor_fail, fetch_fail)
    /\ UNCHANGED <<calc, io_vars, computed, stock, stock_sync, config, price_db, csv, store, tx, batch, last, env_steps>>

\* A faulty variant: closing the connection commits what was executed.
CloseCommits(committed, view) == view

\* IndicatorsWriter.py lines 241-243: the finally clause closes the cursor and
\* the connection without a commit; the server discards the open transaction.
CloseDiscards(committed, view) == committed

\* KeyboardInterrupt while update_all_symbols is in its loop.  It is not an
\* Exception, so no except clause of the writer, of process_single_symbol, of
\* update_all_symbols or of main catches it: it unwinds through the writer's
\* finally clause and ends the process.
Interrupt ==
    /\ batch.pc = "loop"
    /\ batch' = [batch EXCEPT !.pc = "interrupted"]
    /\ run' = IF run.pc = "idle" THEN run ELSE [run EXCEPT !.pc = "interrupted"]
    /\ store' = IF run.pc = "tx" THEN CloseDiscards(store, tx) ELSE store
    /\ tx' = {}
    /\ last' = IF run.pc = "idle" THEN last ELSE NoLast
    /\ UNCHANGED <<calc, io_vars, computed, stock, stock_sync, runs, config, price_db, csv, env_steps>>

\* Line 255 (or lines 234, 242): the caller has the counts, or the exception;
\* after an interrupt the process has ended.
BatchReturn ==
    /\ batch.pc \in {"done", "raised", "interrupted"}
    /\ run.pc \in {"idle", "interrupted"}
    /\ batch' = IdleBatch
    /\ run' = IdleRun
    /\ UNCHANGED <<calc, io_vars, computed, stock, stock_sync, runs, config, price_db, csv, store, tx, last, env_steps>>

FromDates == {NoDate, DateOf(2)}

Next ==
    \/ \E s \in Symbols, cfg \in Configs, data \in SourceAnswers, fail \in BOOLEAN :
          StockSave(s, cfg, data, fail)
    \/ \E accepted \in BOOLEAN : StockUpsertPrices(accepted)
    \/ \E s \in Symbols : StockSyncRead(s)
    \/ \E answer \in SourceAnswers : StockSyncWrite(answer)
    \/ \E s \in Symbols, data \in SourceAnswers : SingleModeSave(s, data)
    \/ \E s \in Symbols, fd \in FromDates, cf \in BOOLEAN, ff \in BOOLEAN :
          SingleStart(s, fd, cf, ff)
    \/ Compute
    \/ \E cf \in BOOLEAN : Save(cf)
    \/ \E f \in BOOLEAN : ExecutePage(f)
    \/ \E f \in BOOLEAN : Commit(f)
    \/ Return
    \/ \E force \in BOOLEAN, fd \in FromDates, lf \in BOOLEAN, sm \in BOOLEAN :
          BatchStart(force, fd, lf, sm)
    \/ \E cf \in BOOLEAN, ff \in BOOLEAN : BatchCall(cf, ff)
    \/ Interrupt
    \/ BatchReturn

Spec == Init /\ [][Next]_vars

(***************************************************************************)
(* The calculators called on their own, as test_indicators_fixes.py and the *)
(* __main__ block of TechnicalIndicators.py call them: a frame of daily     *)
(* bars is grown row by row and one calculator is applied to it at a time.  *)
(* The bars of a frame repeat a motif of one or two moves, each a change of *)
(* the close with its intraday range and volume.                            *)
(***************************************************************************)
MaxBars == 22
MaxMotif == 2
\* The longest frame an EMA is applied to: the exact value of ema_200 at row
\* i has the denominator 201^i.
MaxEmaRows == 3
StartClose == 40

Rise == [change |-> 1, above |-> 1, below |-> 2, volume |-> 10]
Fall == [change |-> -1, above |-> 2, below |-> 1, volume |-> 30]
Flat == [change |-> 0, above |-> 0, below |-> 0, volume |-> 0]
Moves == {Rise, Fall, Flat}
Motifs == UNION {[1..k -> Moves] : k \in 1..MaxMotif}

NextBar(motif, df) ==
    LET k == Len(df)
        move == motif[(k % Len(motif)) + 1]
        c == (IF k = 0 THEN StartClose ELSE df[k].Close) + move.change
    IN [date |-> k + 1, Open |-> c, High |-> c + move.above,
        Low |-> c - move.below, Close |-> c, Volume |-> move.volume]

pipeline_vars == <<config, price_db, csv, store, run, tx, batch, last, env_steps, stock, stock_sync, runs,
                   computed>>

CalcInit ==
    /\ config = [db_enabled |-> FALSE, db_update_enabled |-> FALSE]
    /\ price_db = [t \in Tickers |-> {}]
    /\ csv = [s \in Symbols |-> {}]
    /\ store = {}
    /\ run = IdleRun
    /\ tx = {}
    /\ batch = IdleBatch
    /\ last = NoLast
    /\ env_steps = 0
    /\ stock = NoStock
    /\ stock_sync = NoStockSync
    /\ computed = <<>>
    /\ runs = 0
    /\ IoAtRest
    /\ \E motif \in Motifs : calc = [NoCalc EXCEPT !.motif = motif]

AppendBar ==
    /\ Len(calc.df) < MaxBars
    /\ calc' = [calc EXCEPT !.df = Append(@, NextBar(calc.motif, calc.df)),
                            !.indicator = "none", !.period = 0, !.values = <<>>,
                            !.trace = <<>>]
    /\ UNCHANGED <<pipeline_vars, io_vars>>

Returned(c, indicator, period, values) ==
    [c EXCEPT !.indicator = indicator, !.period = period, !.values = values]

ApplyEma(period) ==
    /\ calc.indicator = "none"
    /\ Len(calc.df) <= MaxEmaRows
    /\ calc' = Returned(calc, "ema", period,
                        calculate_ema(Column(calc.df, "Close"), period))
    /\ UNCHANGED <<pipeline_vars, io_vars>>

ApplyRsi ==
    /\ calc.indicator = "none"
    /\ calc' = Returned(calc, "rsi", RSI_PERIOD,
                        calculate_rsi(Column(calc.df, "Close"), RSI_PERIOD))
    /\ UNCHANGED <<pipeline_vars, io_vars>>

ApplyAtr ==
    /\ calc.indicator = "none"
    /\ calc' = Returned(calc, "atr", ATR_PERIOD,
                        calculate_atr(Column(calc.df, "High"), Column(calc.df, "Low"),
                                      Column(calc.df, "Close"), ATR_PERIOD))
    /\ UNCHANGED <<pipeline_vars, io_vars>>

ApplyVolumeSurge ==
    /\ calc.indicator = "none"
    /\ calc' = Returned(calc, "volume_surge", VOLUME_SURGE_PERIOD,
                        calculate_volume_surge(Column(calc.df, "Volume"),
                                               VOLUME_SURGE_PERIOD))
    /\ UNCHANGED <<pipeline_vars, io_vars>>

ApplyObv ==
    /\ calc.indicator = "none"
    /\ calc' = Returned(calc, "obv", 0,
                        calculate_obv(Column(calc.df, "Close"),
                                      Column(calc.df, "Volume")))
    /\ UNCHANGED <<pipeline_vars, io_vars>>

ApplyAd ==
    /\ calc.indicator = "none"
    /\ calc' = Returned(calc, "ad", 0,
                        calculate_ad_line(Column(calc.df, "High"), Column(calc.df, "Low"),
                                          Column(calc.df, "Close"),
                                          Column(calc.df, "Volume")))
    /\ UNCHANGED <<pipeline_vars, io_vars>>

CalcNext ==
    \/ AppendBar
    \/ \E k \in 1..Len(EMA_PERIODS) : ApplyEma(EMA_PERIODS[k])
    \/ ApplyRsi
    \/ ApplyAtr
    \/ ApplyVolumeSurge
    \/ ApplyObv
    \/ ApplyAd

CalcSpec == CalcInit /\ [][CalcNext]_vars

(***************************************************************************)
(* calculate_ad_line on frames that also hold bars with high = low: a bar   *)
(* that traded at one price (close = high = low, volume above 0) and a bar  *)
(* whose close lies off its single high = low price, as a bad tick of the   *)
(* data source gives it.                                                    *)
(***************************************************************************)
OnePrice == [change |-> 0, above |-> 0, below |-> 0, volume |-> 20]
BadTick == [change |-> 0, above |-> 1, below |-> -1, volume |-> 10]
TickMoves == Moves \cup {OnePrice, BadTick}
TickMotifs == UNION {[1..k -> TickMoves] : k \in 1..MaxMotif}

TickInit ==
    /\ config = [db_enabled |-> FALSE, db_update_enabled |-> FALSE]
    /\ price_db = [t \in Tickers |-> {}]
    /\ csv = [s \in Symbols |-> {}]
    /\ store = {}
    /\ run = IdleRun
    /\ tx = {}
    /\ batch = IdleBatch
    /\ last = NoLast
    /\ env_steps = 0
    /\ stock = NoStock
    /\ stock_sync = NoStockSync
    /\ computed = <<>>
    /\ runs = 0
    /\ IoAtRest
    /\ \E motif \in TickMotifs : calc = [NoCalc EXCEPT !.motif = motif]

TickNext ==
    \/ AppendBar
    \/ ApplyAd

TickSpec == TickInit /\ [][TickNext]_vars

(***************************************************************************)
(* calculate_supertrend on frames that follow one base move, with a shock   *)
(* on up to two rows after the bands have become valid: a drop or a jump of *)
(* the price, or a wide bar that closes at its high.                        *)
(***************************************************************************)
FirstShockAt == 13
SecondShockAt == 15

Tiny == [change |-> -1, above |-> 0, below |-> 0, volume |-> 10]
Touch == [change |-> -3, above |-> 0, below |-> 0, volume |-> 30]
Drop == [change |-> -4, above |-> 0, below |-> 0, volume |-> 30]
Jump == [change |-> 4, above |-> 0, below |-> 0, volume |-> 30]
Wide == [change |-> -1, above |-> 0, below |-> 20, volume |-> 30]
BaseMoves == {Tiny, Rise, Flat}
ShockMoves == {Touch, Drop, Jump, Wide}

TrendMotif(base, first, second) ==
    [k \in 1..MaxBars |-> IF k = FirstShockAt THEN first
                          ELSE IF k = SecondShockAt THEN second
                          ELSE base]

TrendInit ==
    /\ config = [db_enabled |-> FALSE, db_update_enabled |-> FALSE]
    /\ price_db = [t \in Tickers |-> {}]
    /\ csv = [s \in Symbols |-> {}]
    /\ store = {}
    /\ run = IdleRun
    /\ tx = {}
    /\ batch = IdleBatch
    /\ last = NoLast
    /\ env_steps = 0
    /\ stock = NoStock
    /\ stock_sync = NoStockSync
    /\ computed = <<>>
    /\ runs = 0
    /\ IoAtRest
    /\ \E base \in BaseMoves :
          \E first \in ShockMoves \cup {base}, second \in ShockMoves \cup {base} :
              calc = [NoCalc EXCEPT !.motif = TrendMotif(base, first, second)]

SupertrendReturned(c, rows) ==
    [c EXCEPT !.indicator = "supertrend", !.period = SUPERTREND_PERIOD,
              !.values = FirstOfEach(rows), !.trace = rows]

ApplySupertrend ==
    /\ calc.indicator = "none"
    /\ calc' = SupertrendReturned(calc,
                    supertrend_rows(Column(calc.df, "High"), Column(calc.df, "Low"),
                                    Column(calc.df, "Close"),
                                    SUPERTREND_PERIOD, SUPERTREND_MULTIPLIER))
    /\ UNCHANGED <<pipeline_vars, io_vars>>

TrendNext ==
    \/ AppendBar
    \/ ApplySupertrend

TrendSpec == TrendInit /\ [][TrendNext]_vars

(***************************************************************************)
(* IndicatorsWriter.py: the five operations called on their own, one after  *)
(* the other, each as the steps at which psycopg2 can raise: get_connection,*)
(* conn.cursor(), the statement, conn.commit().  session.open counts the    *)
(* connections that were opened and not closed.                             *)
(***************************************************************************)
MaxOpen == 3

WriterOps == {"get_latest_indicators_date", "get_latest_price_date",
              "upsert_indicators_data", "fetch_price_data_from_db",
              "get_symbols_needing_indicators_update"}

\* Lines 62-85 and 102-125: the whole body is inside try / except Exception,
\* which returns None; cur.close() and conn.close() are the last statements
\* of the try block.
SwallowingOps == {"get_latest_indicators_date", "get_latest_price_date"}

\* fetch_price_data_from_db hands the connection to pd.read_sql_query and
\* opens no cursor of its own.
CursorOps == WriterOps \ {"fetch_price_data_from_db"}

PipelineIdle ==
    /\ price_db = [t \in Tickers |-> {}]
    /\ csv = [s \in Symbols |-> {}]
    /\ store = {}
    /\ run = IdleRun
    /\ tx = {}
    /\ batch = IdleBatch
    /\ last = NoLast
    /\ env_steps = 0
    /\ stock = NoStock
    /\ stock_sync = NoStockSync
    /\ computed = <<>>
    /\ runs = 0
    /\ calc = NoCalc

ConnInit ==
    /\ config \in {[db_enabled |-> TRUE, db_update_enabled |-> TRUE],
                   [db_enabled |-> TRUE, db_update_enabled |-> FALSE],
                   [db_enabled |-> FALSE, db_update_enabled |-> TRUE]}
    /\ PipelineIdle
    /\ IoAtRest

\* The operation returns or raises to its caller.
Leaves(s, outcome) == [s EXCEPT !.pc = "idle", !.outcome = outcome]

\* The guards before get_connection: lines 59-60, 99-100, 145-158, 257-258,
\* 307-308.
ConnCall(op, empty_frame) ==
    /\ session.pc = "idle"
    /\ empty_frame => op = "upsert_indicators_data"
    /\ session' =
          LET s == [session EXCEPT !.op = op, !.outcome = "none"]
          IN IF ~config.db_enabled
             THEN IF op = "fetch_price_data_from_db" THEN Leaves(s, "raised")
                  ELSE IF op \in SwallowingOps THEN Leaves(s, "returned None")
                  ELSE Leaves(s, "returned")
             ELSE IF op = "upsert_indicators_data"
                       /\ (~config.db_update_enabled \/ empty_frame)
             THEN Leaves(s, "returned")
             ELSE [s EXCEPT !.pc = "connecting"]
    /\ UNCHANGED <<pipeline_vars, calc, fetcher, multi, syncer>>

\* get_connection: psycopg2.connect(**db_params).
ConnConnect(fail) ==
    /\ session.pc = "connecting"
    /\ session.open < MaxOpen
    /\ session' = IF fail
                  THEN IF session.op \in SwallowingOps
                       THEN Leaves(session, "returned None")
                       ELSE Leaves(session, "raised")
                  ELSE [session EXCEPT !.pc = "connected", !.open = @ + 1]
    /\ UNCHANGED <<pipeline_vars, calc, fetcher, multi, syncer>>

\* cur = conn.cursor(): inside the try block of the two date reads (lines
\* 67, 107), before the try block of upsert_indicators_data (line 183) and
\* of get_symbols_needing_indicators_update (line 311).
ConnCursor(fail) ==
    /\ session.pc = "connected"
    /\ session.op \in CursorOps
    /\ session' = IF fail
                  THEN IF session.op \in SwallowingOps
                       THEN Leaves(session, "returned None")
                       ELSE Leaves(session, "raised")
                  ELSE [session EXCEPT !.pc = "cursor"]
    /\ UNCHANGED <<pipeline_vars, calc, fetcher, multi, syncer>>

\* The statement: cur.execute and fetchone (lines 69-75, 109-115),
\* execute_values (line 207), pd.read_sql_query (line 282), cur.execute and
\* fetchall (lines 326-327).  When it raises, the two date reads return None
\* from their except clause; the others go on to their finally clause,
\* upsert_indicators_data after conn.rollback().
ConnExecute(fail) ==
    /\ \/ session.pc = "cursor"
       \/ session.pc = "connected" /\ session.op \notin CursorOps
    /\ session' = IF fail
                  THEN IF session.op \in SwallowingOps
                       THEN Leaves(session, "returned None")
                       ELSE [session EXCEPT !.pc = "failing"]
                  ELSE IF session.op = "upsert_indicators_data"
                       THEN [session EXCEPT !.pc = "executed"]
                       ELSE [session EXCEPT !.pc = "closing"]
    /\ UNCHANGED <<pipeline_vars, calc, fetcher, multi, syncer>>

\* Line 216: conn.commit().
ConnCommit(fail) ==
    /\ session.pc = "executed"
    /\ session' = [session EXCEPT !.pc = IF fail THEN "failing" ELSE "closing"]
    /\ UNCHANGED <<pipeline_vars, calc, fetcher, multi, syncer>>

\* conn.close(): the last statements of the try block of the two date reads
\* (lines 77-78, 117-118), the finally clause of the others (lines 241-243,
\* 293-294, 335-337).
ConnClose ==
    /\ session.pc \in {"closing", "failing"}
    /\ session' = [Leaves(session, IF session.pc = "closing" THEN "returned" ELSE "raised")
                      EXCEPT !.open = @ - 1]
    /\ UNCHANGED <<pipeline_vars, calc, fetcher, multi, syncer>>

ConnNext ==
    \/ \E op \in WriterOps, empty_frame \in BOOLEAN : ConnCall(op, empty_frame)
    \/ \E fail \in BOOLEAN : ConnConnect(fail)
    \/ \E fail \in BOOLEAN : ConnCursor(fail)
    \/ \E fail \in BOOLEAN : ConnExecute(fail)
    \/ \E fail \in BOOLEAN : ConnCommit(fail)
    \/ ConnClose

ConnSpec == ConnInit /\ [][ConnNext]_vars

(***************************************************************************)
(* ScriptDataFetcher.py: fetch_historical_data and                          *)
(* fetch_historical_data_from_date.  An exception is the text of str(e), a  *)
(* sequence of characters; the loop tests "Rate limited" in str(e).         *)
(***************************************************************************)
MaxRetries == 3

\* The text the loop looks for (lines 63 and 109).
RateLimited ==
    <<"R", "a", "t", "e", " ", "l", "i", "m", "i", "t", "e", "d">>

\* str(e) of yfinance's YFRateLimitError.
TooManyRequests ==
    <<"T", "o", "o", " ", "M", "a", "n", "y", " ", "R", "e", "q", "u",
      "e", "s", "t", "s", ".", " ", "R", "a", "t", "e", " ", "l", "i",
      "m", "i", "t", "e", "d", ".", " ", "T", "r", "y", " ", "a", "f",
      "t", "e", "r", " ", "a", " ", "w", "h", "i", "l", "e", ".">>

\* str(e) of an HTTP 429 told by a proxy in front of the source.
RateLimitedByProxy ==
    <<"4", "2", "9", ":", " ", "R", "a", "t", "e", " ", "l", "i", "m",
      "i", "t", "e", "d">>

\* str(e) of a source failure that is not a rate limit.
ConnectionReset ==
    <<"C", "o", "n", "n", "e", "c", "t", "i", "o", "n", " ", "r", "e",
      "s", "e", "t", " ", "b", "y", " ", "p", "e", "e", "r">>

\* str(e) of a failure that speaks of a rate limit in other words.
RateLimitExceeded ==
    <<"r", "a", "t", "e", " ", "l", "i", "m", "i", "t", " ", "e", "x",
      "c", "e", "e", "d", "e", "d">>

\* Lines 71 and 117: the exception raised when the loop runs out.
FailedAfterRetries ==
    <<"F", "a", "i", "l", "e", "d", " ", "t", "o", " ", "f", "e", "t",
      "c", "h", " ", "d", "a", "t", "a", " ", "a", "f", "t", "e", "r",
      " ", "r", "e", "t", "r", "i", "e", "s", " ", "d", "u", "e", " ",
      "t", "o", " ", "r", "a", "t", "e", " ", "l", "i", "m", "i", "t",
      "i", "n", "g", ".">>

\* needle in text, as Python's str.__contains__.
Contains(needle, text) ==
    \E k \in 0..(Len(text) - Len(needle)) :
        SubSeq(text, k + 1, k + Len(needle)) = needle

FetchFunctions == {"fetch_historical_data", "fetch_historical_data_from_date"}

\* What one call of ticker.history does: it returns a frame (with rows or
\* empty) or raises.
Frames == {"rows", "empty"}
SourceErrors == {TooManyRequests, RateLimitedByProxy, ConnectionReset, RateLimitExceeded}
Answers == [kind : {"return"}, value : Frames] \cup [kind : {"raise"}, value : SourceErrors]

FetchInit ==
    /\ config = [db_enabled |-> FALSE, db_update_enabled |-> FALSE]
    /\ PipelineIdle
    /\ IoAtRest

\* Lines 22 and 73: the call with its arguments.
Called(fn, retries) == [NoFetch EXCEPT !.pc = "loop", !.fn = fn, !.retries = retries]

\* A handler that sleeps and tries again whatever the exception says.
after_exception_retry_any(f, text) ==
    [f EXCEPT !.slept = @ + 1]

\* Lines 61-68 (and 107-114): the except clause.  A rate-limit exception
\* sleeps for delay seconds and lets the loop go on; any other is re-raised.
after_exception(f, text) ==
    IF Contains(RateLimited, text)
    THEN [f EXCEPT !.slept = @ + 1]
    ELSE [f EXCEPT !.pc = "done", !.outcome = "raised", !.value = text]

\* Lines 51-68 (and 102-114): one pass of the loop body.
after_attempt(f, answer) ==
    LET g == [f EXCEPT !.history = Append(@, answer)]
    IN IF answer.kind = "return"
       THEN [g EXCEPT !.pc = "done", !.outcome = "returned", !.value = answer.value]
       ELSE after_exception(g, answer.value)

FetchCall(fn, retries) ==
    /\ fetcher.pc = "idle"
    /\ multi.pc = "idle"
    /\ fetcher' = Called(fn, retries)
    /\ UNCHANGED <<pipeline_vars, calc, session, multi, syncer>>

\* for attempt in range(retries): one more attempt.
FetchAttempt(answer) ==
    /\ fetcher.pc = "loop"
    /\ Len(fetcher.history) < fetcher.retries
    /\ fetcher' = after_attempt(fetcher, answer)
    /\ UNCHANGED <<pipeline_vars, calc, session, multi, syncer>>

\* The loop has run out: line 71 (117).
FetchExhausted ==
    /\ fetcher.pc = "loop"
    /\ Len(fetcher.history) >= fetcher.retries
    /\ fetcher' = [fetcher EXCEPT !.pc = "done", !.outcome = "raised",
                                  !.value = FailedAfterRetries]
    /\ UNCHANGED <<pipeline_vars, calc, session, multi, syncer>>

\* The caller has the frame or the exception.
FetchReturn ==
    /\ fetcher.pc = "done"
    /\ multi.pc = "idle"
    /\ fetcher' = NoFetch
    /\ UNCHANGED <<pipeline_vars, calc, session, multi, syncer>>

FetchStep ==
    \/ \E answer \in Answers : FetchAttempt(answer)
    \/ FetchExhausted

FetchNext ==
    \/ \E fn \in FetchFunctions, retries \in 0..MaxRetries : FetchCall(fn, retries)
    \/ \E answer \in Answers : FetchAttempt(answer)
    \/ FetchExhausted
    \/ FetchReturn

\* ticker.history returns or raises and time.sleep(delay) ends, so a call in
\* its loop takes its next step.
FetchSpec == FetchInit /\ [][FetchNext]_vars /\ WF_vars(FetchStep)

(***************************************************************************)
(* NiftyScriptsDataSyncer.py: fetch_multiple_historical_data.  For every    *)
(* symbol it loops over range(retries) around one call of                   *)
(* ScriptDataFetcher.fetch_historical_data(symbol, retries=1, delay=delay), *)
(* which runs as the fetch above.  multi.log keeps, for every symbol, what  *)
(* each attempt of the outer loop got from the source and how it ended.     *)
(***************************************************************************)
MaxSymbols == 2

\* str(e) of an OSError of save_data_to_csv.
NoSpaceLeft ==
    <<"N", "o", " ", "s", "p", "a", "c", "e", " ", "l", "e", "f", "t">>

FetchLists == UNION {[1..k -> {"X", "Y"}] : k \in 0..MaxSymbols}

MultiInit ==
    /\ config = [db_enabled |-> FALSE, db_update_enabled |-> FALSE]
    /\ PipelineIdle
    /\ IoAtRest

\* The next symbol of the list, or the end of the list.
NextSymbol(m) ==
    IF m.i + 1 > Len(m.symbols) THEN [m EXCEPT !.pc = "done", !.i = @ + 1, !.attempt = 0]
    ELSE [m EXCEPT !.pc = "attempt", !.i = @ + 1, !.attempt = 0]

\* The attempt of symbol m.i that has just ended, added to the log.
Logged(m, source, ended) ==
    [m EXCEPT !.log[m.i] = Append(@, [source |-> source, ended |-> ended])]

\* Lines 141-147: the except clause of the outer loop.
multi_after_exception(m, source, text) ==
    IF Contains(RateLimited, text)
    THEN [Logged(m, source, "retry") EXCEPT !.pc = "attempt", !.attempt = @ + 1]
    ELSE NextSymbol(Logged(m, source, "failed"))

\* Lines 135-147 once the fetch has returned or raised.
multi_after_fetch(m, f, save_fail) ==
    IF f.outcome = "returned"
    THEN IF f.value = "rows"
         THEN IF save_fail
              THEN multi_after_exception(m, f.history, NoSpaceLeft)
              ELSE NextSymbol([Logged(m, f.history, "saved")
                                  EXCEPT !.saved = @ \cup {m.symbols[m.i]}])
         ELSE NextSymbol(Logged(m, f.history, "no data"))
    ELSE multi_after_exception(m, f.history, f.value)

MultiCall(symbols, retries) ==
    /\ multi.pc = "idle"
    /\ fetcher.pc = "idle"
    /\ multi' = NextSymbol([NoMulti EXCEPT !.symbols = symbols, !.retries = retries,
                                          !.log = [k \in 1..Len(symbols) |-> <<>>]])
    /\ UNCHANGED <<pipeline_vars, calc, session, fetcher, syncer>>

\* Lines 132-135: one more pass of range(retries) calls the fetch.
MultiFetch ==
    /\ multi.pc = "attempt"
    /\ multi.attempt < multi.retries
    /\ multi' = [multi EXCEPT !.pc = "fetching"]
    /\ fetcher' = Called("fetch_historical_data", 1)
    /\ UNCHANGED <<pipeline_vars, calc, session, syncer>>

\* range(retries) is used up without a break.
MultiGiveUp ==
    /\ multi.pc = "attempt"
    /\ multi.attempt >= multi.retries
    /\ multi' = NextSymbol(multi)
    /\ UNCHANGED <<pipeline_vars, calc, session, fetcher, syncer>>

MultiResume(save_fail) ==
    /\ multi.pc = "fetching"
    /\ fetcher.pc = "done"
    /\ save_fail => fetcher.outcome = "returned" /\ fetcher.value = "rows"
    /\ multi' = multi_after_fetch(multi, fetcher, save_fail)
    /\ fetcher' = NoFetch
    /\ UNCHANGED <<pipeline_vars, calc, session, syncer>>

MultiReturn ==
    /\ multi.pc = "done"
    /\ multi' = NoMulti
    /\ UNCHANGED <<pipeline_vars, calc, session, fetcher, syncer>>

MultiNext ==
    \/ \E symbols \in FetchLists, retries \in 0..MaxRetries : MultiCall(symbols, retries)
    \/ MultiFetch
    \/ \E answer \in Answers : FetchAttempt(answer)
    \/ FetchExhausted
    \/ \E save_fail \in BOOLEAN : MultiResume(save_fail)
    \/ MultiGiveUp
    \/ MultiReturn

MultiSpec == MultiInit /\ [][MultiNext]_vars

(***************************************************************************)
(* NiftyScriptsDataSyncer.py: sync_symbol_data on the CSV file of one       *)
(* symbol.  syncer.file is the rows of the file in file order, a row being  *)
(* its Date and the seven columns the sync compares; days are numbered, and *)
(* the order of the '%Y-%m-%d' strings the code compares is the order of    *)
(* the days.  Other callers write the same file through FileHandler.        *)
(***************************************************************************)
MaxDay == 4
\* Writes of other callers to the file.
MaxWrites == 1

Days == 1..MaxDay

\* The close and the volume the source reports for a day; the close it
\* reports after a corporate action has adjusted its history, and the volume
\* it reports after it has revised the day.
SourceClose(d) == 10 + d
AdjustedClose(d) == 5 + d
SourceVolume(d) == 100
RevisedVolume(d) == 150

\* What the source reports: the history as first reported, adjusted prices,
\* or a revised volume.
Revisions == {"reported", "adjusted", "volume"}

SourceRow(d, revision) ==
    LET c == IF revision = "adjusted" THEN AdjustedClose(d) ELSE SourceClose(d)
    IN [Date |-> d, Open |-> c, High |-> c + 1, Low |-> c - 1, Close |-> c,
        Volume |-> IF revision = "volume" THEN RevisedVolume(d) ELSE SourceVolume(d),
        Dividends |-> 0, Stock_Splits |-> 0]

\* The rows of the days of D in ascending order.
RowsOfDays(D, revision) ==
    LET sorted == SortedDates(D)
    IN [k \in 1..Len(sorted) |-> SourceRow(sorted[k], revision)]

\* What ticker.history(start=last_date) can return on a day: rows of days
\* from last_date to today in ascending order, with or without the row of
\* last_date itself, as reported, adjusted or revised; or no row.
FetchResults(last_date, today) ==
    {RowsOfDays(D, revision) : D \in SUBSET (last_date..today), revision \in Revisions}

SyncInit ==
    /\ config = [db_enabled |-> FALSE, db_update_enabled |-> FALSE]
    /\ PipelineIdle
    /\ session = NoSession
    /\ fetcher = NoFetch
    /\ multi = NoMulti
    /\ \E today \in Days, exists \in BOOLEAN, D \in SUBSET Days :
          /\ ~exists => D = {}
          /\ syncer = [NoSync EXCEPT !.today = today, !.exists = exists,
                                     !.file = RowsOfDays(D, "reported")]

Ends(y, outcome) == [y EXCEPT !.pc = "done", !.outcome = outcome]

\* Lines 177-199: the file is read and its last date compared with today.
SyncCall ==
    /\ syncer.pc = "idle"
    /\ syncer' =
          LET y == [syncer EXCEPT !.df = <<>>, !.last_date = 0, !.fetched = <<>>,
                                  !.new_data = <<>>, !.alert = FALSE, !.outcome = "none"]
          IN IF ~y.exists THEN Ends(y, "no file")
             ELSE IF y.file = <<>> THEN Ends(y, "no data")
             ELSE LET last_date == y.file[Len(y.file)].Date
                      z == [y EXCEPT !.df = y.file, !.last_date = last_date]
                  IN IF last_date >= y.today THEN Ends(z, "up to date")
                     ELSE [z EXCEPT !.pc = "fetching"]
    /\ UNCHANGED <<pipeline_vars, calc, session, fetcher, multi>>

\* Lines 202-210: fetch_historical_data_from_date(symbol, last_date_str)
\* raises, or returns no row, or returns rows.
SyncFetched(raises, rows) ==
    /\ syncer.pc = "fetching"
    /\ rows \in FetchResults(syncer.last_date, syncer.today)
    /\ raises => rows = <<>>
    /\ syncer' = IF raises THEN Ends(syncer, "raised")
                 ELSE IF rows = <<>> THEN Ends(syncer, "no new data")
                 ELSE [syncer EXCEPT !.pc = "fetched", !.fetched = rows, !.new_data = rows]
    /\ UNCHANGED <<pipeline_vars, calc, session, fetcher, multi>>

\* Line 225: new_data = new_data.iloc[1:].
without_first_row(new_data, last_date) == Tail(new_data)

\* Line 215.
columns_to_check == {"Open", "High", "Low", "Close", "Volume", "Dividends", "Stock_Splits"}

\* pd.isnull: a missing value is written as a negative number.
isnull(v) == v < 0

\* Lines 216-222: a column in which the two rows differ, unless both values
\* are missing.
mismatch(last_row, first_new_row) ==
    \E col \in columns_to_check :
        /\ ~(isnull(last_row[col]) /\ isnull(first_new_row[col]))
        /\ last_row[col] # first_new_row[col]

\* Lines 213-242: the first fetched row is compared with the last row of
\* the file and dropped; the rest is appended and the file written.
SyncAppend ==
    /\ syncer.pc = "fetched"
    /\ syncer' =
          LET rest == without_first_row(syncer.new_data, syncer.last_date)
              y == [syncer EXCEPT !.new_data = rest,
                                  !.alert = mismatch(syncer.df[Len(syncer.df)],
                                                     syncer.new_data[1])]
          IN IF rest # <<>>
             THEN Ends([y EXCEPT !.file = syncer.df \o rest], "appended")
             ELSE Ends(y, "nothing to append")
    /\ UNCHANGED <<pipeline_vars, calc, session, fetcher, multi>>

\* FileHandler.append_data_to_csv, lines 142-172: without a file, or with
\* one that cannot be parsed, the frame is saved; else the frame is put
\* behind the rows of the file, of the rows of one date the last is kept
\* and the rows are sorted by date.
append_data_to_csv(exists, file, data) ==
    IF ~exists \/ file = <<>> THEN data
    ELSE LET combined == file \o data
             kept(d) == combined[CHOOSE k \in DOMAIN combined :
                                    /\ combined[k].Date = d
                                    /\ \A j \in DOMAIN combined :
                                          combined[j].Date = d => j <= k]
             sorted == SortedDates({combined[k].Date : k \in DOMAIN combined})
         IN [k \in 1..Len(sorted) |-> kept(sorted[k])]

\* Another caller writes <symbol>.csv while no sync or at any point of one:
\* FileHandler.save_data_to_csv (lines 47-50; called at lines 82 and 137
\* of NiftyScriptsDataSyncer.py) overwrites it with a frame of the source,
\* FileHandler.append_data_to_csv merges the frame into it.
FileWritten(append, data) ==
    /\ syncer.pc # "done"
    /\ syncer.writes < MaxWrites
    /\ data # <<>>
    /\ data[Len(data)].Date <= syncer.today
    /\ syncer' = [syncer EXCEPT !.exists = TRUE,
                                !.writes = @ + 1,
                                !.file = IF append
                                         THEN append_data_to_csv(syncer.exists, syncer.file, data)
                                         ELSE data]
    /\ UNCHANGED <<pipeline_vars, calc, session, fetcher, multi>>

SyncReturn ==
    /\ syncer.pc = "done"
    /\ syncer' = [syncer EXCEPT !.pc = "idle"]
    /\ UNCHANGED <<pipeline_vars, calc, session, fetcher, multi>>

\* datetime.today() of the next call is a later day.
NextDay ==
    /\ syncer.pc = "idle"
    /\ syncer.today < MaxDay
    /\ syncer' = [syncer EXCEPT !.today = @ + 1]
    /\ UNCHANGED <<pipeline_vars, calc, session, fetcher, multi>>

SyncNext ==
    \/ SyncCall
    \/ \E raises \in BOOLEAN, rows \in FetchResults(1, MaxDay) : SyncFetched(raises, rows)
    \/ SyncAppend
    \/ \E append \in BOOLEAN, data \in FetchResults(1, MaxDay) : FileWritten(append, data)
    \/ SyncReturn
    \/ NextDay

SyncSpec == SyncInit /\ [][SyncNext]_vars

(***************************************************************************)
(* Properties of the indicator store.                                       *)
(***************************************************************************)
RowsOf(table, ticker) == {r \in table : r.ticker = ticker}
DatesOf(rows) == {r.date : r \in rows}
KeysOf(table) == {<<r.ticker, r.date>> : r \in table}
FrameDates(df) == {df[i].date : i \in 1..Len(df)}
\* The cursor of a ticker in a table: its maximum persisted date.
CursorIn(table, ticker) == MaxDate(DatesOf(RowsOf(table, ticker)))

RunDone == run.pc = "done"

\* The slicing law for a returned run that had read cursor D.
SlicingLawHolds(D, ticker) ==
    /\ \A r \in run.written : r.date > D
    /\ RowsOf(run.store_before, ticker) \subseteq store
    /\ DatesOf(RowsOf(store, ticker))
         = DatesOf(RowsOf(run.store_before, ticker))
             \cup {d \in FrameDates(run.price_data) : d > D}

\* C1: slicing law.  When an Incremental-mode run (database enabled, no
\* force_recalculate, no from-date) that read cursor D returns success, the
\* persisted dates of the symbol are the prior dates united with the price
\* dates after D, and no row dated D or earlier was written or changed; on
\* every path, the CSV fallback included.  The code does not keep it: the
\* CSV fallback upserts every row of the file.
C1_SlicingLaw ==
    (RunDone /\ run.result /\ IsIncrementalCall(run) /\ run.latest_indicators_date # NoDate)
        => SlicingLawHolds(run.latest_indicators_date, clean_symbol(run.symbol))

\* C2: idempotence of Incremental sync.  A second Incremental-mode run of
\* the symbol, right after a successful one and with no price change in
\* between, reports success, writes nothing and leaves the store as it was.
\* The code does not keep it: a second run whose price fetch raises falls
\* back to the CSV file and upserts the whole file again.
C2_SecondRunWritesNothing ==
    (RunDone /\ last = run.symbol /\ IsIncrementalCall(run)
       /\ run.latest_indicators_date # NoDate /\ run.price_data # <<>>
       /\ ~run.upsert_raised)
        => (run.result /\ run.written = {} /\ store = run.store_before)

\* C3: ColdStart.  After a successful run without from-date for a symbol
\* that had no indicator row, the persisted dates of the symbol are exactly
\* the dates of the fetched price history, one row per price row.  The code
\* does not keep it: with database updates disabled the run reports success
\* and persists nothing.
C3_ColdStartPersistsHistory ==
    (RunDone /\ run.result /\ IsIncrementalCall(run) /\ run.data_source = "database"
       /\ CursorIn(run.store_before, clean_symbol(run.symbol)) = NoDate)
        => /\ run.target_from_date = NoDate
           /\ DatesOf(RowsOf(store, clean_symbol(run.symbol))) = FrameDates(run.price_data)
           /\ Cardinality(RowsOf(store, clean_symbol(run.symbol))) = Len(run.price_data)


\* The rows a ColdStart on an empty store persists from a price history.
ColdStartRows(history, symbol) ==
    InsertOnConflict({}, {data_tuple(row) : row \in Range(create_indicators_dataframe(history, symbol))})

\* The dates of the price source a run read from, as the run found it.
SourceDates(r) ==
    IF r.data_source = "database" THEN {p.date : p \in r.prices_before.db}
    ELSE r.prices_before.csv

\* The whole CSV file of the symbol as the run found it.
FileRead(r) ==
    LET sorted == SortedDates(r.prices_before.csv)
    IN [i \in 1..Len(sorted) |-> PriceRow(r.symbol, sorted[i])]

\* No other symbol stored under the same ticker has a price file: every
\* price ever stored or computed under the ticker is a price of the symbol.
SoleSymbolWithPrices(symbol) ==
    \A sym \in Symbols \ {symbol} :
        clean_symbol(sym) = clean_symbol(symbol) => csv[sym] = {}

\* A force_recalculate run without from-date whose upsert committed.
ForceRunCommitted ==
    RunDone /\ run.force_recalculate /\ run.from_date = NoDate /\ run.written # {}

\* The cursor was not consulted and the CSV file was read unsliced.
ForceIgnoresCursor ==
    /\ run.latest_indicators_date = NoDate
    /\ run.target_from_date = NoDate
    /\ run.data_source = "CSV"
    /\ FrameDates(run.indicators_df) = SourceDates(run)

\* The symbol's rows are those of cold at its dates, the prior rows elsewhere.
OverwrittenBy(cold, ticker) ==
    /\ run.written = cold
    /\ cold \subseteq store
    /\ \A r \in RowsOf(store, ticker) :
          r \in cold \/ (r \in run.store_before /\ r.date \notin DatesOf(cold))

\* C4 (as amended): a force_recalculate run without from-date does not
\* consult the cursor, reads the whole CSV file of the symbol and applies
\* no slicing; once its upsert commits, the symbol's rows at the dates of
\* that history are exactly the rows a ColdStart on an empty store produces
\* from the same history, existing rows at those dates being overwritten,
\* and the symbol's rows at other dates are the prior ones, unchanged.
C4_ForceRecalculateOverwritesHistory ==
    ForceRunCommitted
        => /\ ForceIgnoresCursor
           /\ OverwrittenBy(ColdStartRows(FileRead(run), run.symbol),
                            clean_symbol(run.symbol))

\* C4 (as stated): after a force_recalculate run the store of the symbol
\* equals the store a ColdStart on an empty store would produce from the
\* same price history (taken for a symbol whose ticker holds the prices of
\* no other symbol).
C4_StoreEqualsColdStart ==
    (ForceRunCommitted /\ SoleSymbolWithPrices(run.symbol))
        => RowsOf(store, clean_symbol(run.symbol))
             = ColdStartRows(FileRead(run), run.symbol)

\* C4 happens: a force_recalculate run committed over a store that had a
\* cursor for the symbol and overwrote a row with different values.
C4_Witness ==
    /\ ForceRunCommitted
    /\ CursorIn(run.store_before, clean_symbol(run.symbol)) # NoDate
    /\ \E o \in run.store_before : \E n \in run.written : SameKey(o, n) /\ o # n

C6_KeyUnique ==
    /\ \A a \in store : \A b \in store : SameKey(a, b) => a = b
    /\ \A a \in tx : \A b \in tx : SameKey(a, b) => a = b

\* C6 happens: an upsert met an existing key with other values and the
\* store holds only the new row for it.
C6_Witness ==
    /\ RunDone
    /\ \E o \in run.store_before : \E n \in run.written :
          /\ SameKey(o, n) /\ o # n
          /\ n \in store /\ o \notin store
    /\ run.result

\* C7: every persisted indicator row has a price row behind it.  The store
\* starts empty, and every row a step adds to it carries the ticker of the
\* run in progress and the date of a price row that run read, that row
\* being in the source (price table or CSV file) the run used.
C7_PersistedRowsHavePrices ==
    [][\A r \in store' \ store :
          /\ r.ticker = clean_symbol(run.symbol)
          /\ r.date \in FrameDates(run.price_data)
          /\ r.date \in SourceDates(run)]_vars

\* C7 happens: rows were persisted by a run that read the CSV file after
\* the database fetch raised, and by then the store held rows of a run that
\* read the price table.
C7_Witness ==
    /\ RunDone /\ run.written # {} /\ run.written \subseteq store
    /\ run.data_source = "CSV" /\ config.db_enabled /\ ~run.force_recalculate
    /\ run.store_before # {}

\* C8: indicator rows are never deleted.  Every step keeps every persisted
\* (ticker, date) key, and a row whose values a step changes belongs to the
\* ticker of the run in progress and to a date of the window that run
\* upserts.
C8_RowsNeverDeleted ==
    [][/\ KeysOf(store) \subseteq KeysOf(store')
       /\ \A r \in store \ store' :
             /\ r.ticker = clean_symbol(run.symbol)
             /\ r.date \in FrameDates(run.indicators_df)]_vars

\* C8 happens: a committed run changed one row of its ticker and left
\* another row of the same ticker, outside its window, as it was.
C8_Witness ==
    /\ RunDone /\ run.written # {}
    /\ \E o \in run.store_before : o \notin store
    /\ \E k \in run.store_before :
          /\ k \in store
          /\ k.ticker = clean_symbol(run.symbol)
          /\ k.date \notin FrameDates(run.indicators_df)

\* C9: atomic per-symbol batch.  While the transaction of a run is open the
\* store is as it was before the call; a run whose upsert raised leaves the
\* store as it was and reports failure; and at every point of a run the
\* store holds either none of the batch or all of it.
C9_AtomicBatch ==
    /\ run.pc = "tx" => store = run.store_before
    /\ (RunDone /\ run.upsert_raised)
          => (store = run.store_before /\ ~run.result /\ tx = {})
    /\ run.pc # "idle"
          => \/ store = run.store_before
             \/ store = InsertOnConflict(run.store_before, Range(run.data_tuples))

\* C9 happens: a statement of a later page failed after the first page had
\* been executed, and the run reported failure.
C9_Witness ==
    /\ RunDone /\ run.upsert_raised /\ ~run.result
    /\ run.page = 2 /\ NumPages(run.data_tuples) >= 2
    /\ store = run.store_before

NumberOf(results, value) == Cardinality({k \in 1..Len(results) : results[k] = value})

\* The loop of update_all_symbols has taken the symbols in order, once each.
ProcessedInOrder(b) ==
    /\ Len(b.processed) <= Len(b.symbols)
    /\ b.processed = SubSeq(b.symbols, 1, Len(b.processed))
    /\ Len(b.results) = Len(b.processed)
    /\ b.success_count = NumberOf(b.results, TRUE)
    /\ b.error_count = NumberOf(b.results, FALSE)

\* C10 (as amended): once update_all_symbols has its symbol list it
\* processes every symbol of the list exactly once, in order, whatever the
\* outcome of the earlier symbols, and returns counts whose sum is the
\* number of symbols; a run whose price source gave no rows reports failure
\* and leaves the store as it was.  When the source file is missing it
\* returns (0, 1) with no symbol processed.
C10_BatchCountsEverySymbol ==
    /\ (batch.pc \in {"loop", "done"} /\ batch.listed) => ProcessedInOrder(batch)
    /\ (batch.pc = "done" /\ batch.listed)
          => /\ batch.processed = batch.symbols
             /\ batch.success_count + batch.error_count = Len(batch.symbols)
    /\ (batch.pc = "done" /\ ~batch.listed)
          => /\ batch.processed = <<>>
             /\ batch.success_count = 0 /\ batch.error_count = 1
    /\ (RunDone /\ run.price_data = <<>>)
          => (~run.result /\ store = run.store_before)

\* C10 (as stated): update_all_symbols returns (success_count, error_count)
\* with success_count + error_count equal to the number of symbols.
C10_CountsSumToSymbols ==
    batch.pc = "done"
        => batch.success_count + batch.error_count = Len(batch.symbols)

\* C10 happens: a batch of two symbols ended with the first failed, nothing
\* persisted for it, and the second succeeded and persisted.
C10_Witness ==
    /\ batch.pc = "done" /\ batch.listed
    /\ Len(batch.symbols) = 2
    /\ batch.results = <<FALSE, TRUE>>
    /\ batch.success_count = 1 /\ batch.error_count = 1
    /\ RowsOf(store, clean_symbol(batch.symbols[1])) = {}
    /\ RowsOf(store, clean_symbol(batch.symbols[2])) # {}

(***************************************************************************)
(* Per-symbol independence.                                                 *)
(***************************************************************************)
\* C11: a sync of symbol A leaves every indicator row of every other symbol B
\* unchanged, for all distinct identifiers A and B the pipeline accepts,
\* X.NS and X.BO included: no step of a run of A removes or rewrites a row
\* stored for B, a row stored under the ticker of B that holds the
\* indicators of the prices of B's own file.
C11_OtherSymbolsRowsUnchanged ==
    [][\A B \in Symbols :
          (run.pc # "idle" /\ B # run.symbol /\ store' # store) =>
              \A row \in RowsOf(store, clean_symbol(B)) \cap
                            ColdStartRows(load_price_data_from_csv(B, NoDate), B) :
                  row \in store']_vars

(***************************************************************************)
(* Cancellation of a whole run.                                             *)
(***************************************************************************)
\* C12: when update_all_symbols is interrupted, no further symbol is started
\* after the cancellation, and the symbol in flight has either its whole
\* batch committed or none of it: an interrupt during the upsert leaves no
\* partial rows persisted and no transaction open.
C12_CancellationGranularity ==
    [][/\ batch.pc = "interrupted" => (run'.pc \in {"idle", "interrupted"} /\ store' = store)
       /\ batch'.pc = "interrupted" =>
             /\ tx' = {}
             /\ run.pc = "tx" => store' = run.store_before
             /\ run.pc # "idle" =>
                   store' \in {run.store_before,
                               InsertOnConflict(run.store_before,
                                                Range(run.data_tuples))}]_vars

\* C12 happens: the interrupt arrived between two pages of the upsert of a
\* symbol, with another symbol still to come; the executed page is gone.
C12_Witness ==
    /\ batch.pc = "interrupted" /\ run.pc = "interrupted"
    /\ batch.i < Len(batch.symbols)
    /\ run.page = 2 /\ NumPages(run.data_tuples) >= 2
    /\ ~run.result /\ ~run.upsert_raised
    /\ store = run.store_before
    /\ tx = {}

(***************************************************************************)
(* Warmup window resolution.                                                *)
(***************************************************************************)
\* The fetched history starts after the start of the warmup window.
ShortHistory(r) ==
    r.price_data # <<>> /\ r.price_data[1].date > r.warmup_from_date

\* C13: in Incremental mode target_from is the cursor plus one day and the
\* fetch starts exactly 300 calendar days before target_from, a function of
\* the cursor alone, so the window is at least 220 days long; and a price
\* history shorter than the window is not an error: the run computes over
\* what was fetched, slices at target_from and upserts.
C13_WarmupWindowResolution ==
    (run.pc # "idle" /\ IsIncrementalCall(run) /\ run.latest_indicators_date # NoDate)
    => /\ run.target_from_date = run.latest_indicators_date + 1
       /\ run.warmup_from_date = run.latest_indicators_date + 1 - WARMUP_DAYS
       /\ run.target_from_date - run.warmup_from_date >= 220
       /\ run.data_source = "database" =>
             FrameDates(run.price_data) =
                {d \in SourceDates(run) :
                    d >= run.latest_indicators_date + 1 - WARMUP_DAYS}
       /\ (RunDone /\ run.data_source = "database" /\ ShortHistory(run)) =>
             /\ FrameDates(run.indicators_df) =
                   {d \in FrameDates(run.price_data) : d >= run.target_from_date}
             /\ run.indicators_df # <<>> => run.upsert_called
             /\ ~run.upsert_raised => run.result

\* C13 happens: an incremental run whose fetched history begins inside the
\* warmup window computed, sliced and persisted the new date.
C13_Witness ==
    /\ RunDone /\ IsIncrementalCall(run)
    /\ run.latest_indicators_date = DateOf(2)
    /\ run.data_source = "database" /\ ShortHistory(run)
    /\ Len(run.price_data) = 2
    /\ FrameDates(run.indicators_df) = {DateOf(3)}
    /\ run.result /\ DatesOf(run.written) = {DateOf(3)}
    /\ run.written \subseteq store

(***************************************************************************)
(* Properties of the calculators.                                           *)
(***************************************************************************)
\* The suffix window of a frame that starts at row s (row 1 is the origin).
Window(df, s) == SubSeq(df, s, Len(df))

\* The series a calculator returns for a frame.
Calculated(indicator, df) ==
    CASE indicator = "rsi" -> calculate_rsi(Column(df, "Close"), RSI_PERIOD)
      [] indicator = "atr" -> calculate_atr(Column(df, "High"), Column(df, "Low"),
                                            Column(df, "Close"), ATR_PERIOD)
      [] indicator = "volume_surge" ->
            calculate_volume_surge(Column(df, "Volume"), VOLUME_SURGE_PERIOD)
      [] indicator = "obv" -> calculate_obv(Column(df, "Close"), Column(df, "Volume"))
      [] indicator = "ad" -> calculate_ad_line(Column(df, "High"), Column(df, "Low"),
                                               Column(df, "Close"), Column(df, "Volume"))

\* Wherever the window's own value is non-null it is the full series' value
\* of the same row.
AgreesWhereValid(over_window, over_full, s) ==
    \A j \in 1..Len(over_window) :
        ~IsNaN(over_window[j]) => over_window[j] = over_full[s + j - 1]

\* C14: warmup correctness of the finite-lookback indicators.  For rsi (14),
\* atr (14) and volume_surge (20), for any price series and any suffix window
\* of it, at every row where the value computed over the window alone is
\* non-null, it equals the value computed over the full series at that row.
C14_FiniteLookbackWarmup ==
    calc.indicator \in {"rsi", "atr", "volume_surge"} =>
        \A s \in 1..Len(calc.df) :
            AgreesWhereValid(Calculated(calc.indicator, Window(calc.df, s)),
                             calc.values, s)

\* The money-flow volume of one bar: mfm * volume, mfm taken as 0 on a bar
\* with high = low.
MoneyFlowVolume(bar) ==
    IF bar.High = bar.Low THEN RInt(0)
    ELSE RMul(RNorm((bar.Close - bar.Low) - (bar.High - bar.Close),
                    bar.High - bar.Low),
              RInt(bar.Volume))

\* What a cumulative series computed over the window from row s lacks: the
\* full series' value at row s for obv, at the row before s for ad.
WindowOffset(indicator, over_full, s) ==
    IF indicator = "obv" THEN over_full[s]
    ELSE IF s = 1 THEN RInt(0) ELSE over_full[s - 1]

\* The first value of a cumulative series over a window.
WindowSeed(indicator, window) ==
    IF indicator = "obv" THEN RInt(0) ELSE MoneyFlowVolume(window[1])

Lowered(full_slice, offset) ==
    [j \in 1..Len(full_slice) |-> RSub(full_slice[j], offset)]

\* The window's series is the full series' slice lowered by the offset; it
\* starts at the seed and equals the slice exactly when the offset is zero.
ShiftedByOffset(over_window, full_slice, lowered, offset, seed) ==
    /\ over_window = lowered
    /\ lowered[1] = seed
    /\ (lowered = full_slice) <=> (offset = RInt(0))

CumulativeFromWindowOrigin(indicator, window, over_window, over_full, s) ==
    ShiftedByOffset(over_window, SubSeq(over_full, s, Len(over_full)),
                    Lowered(SubSeq(over_full, s, Len(over_full)),
                            WindowOffset(indicator, over_full, s)),
                    WindowOffset(indicator, over_full, s),
                    WindowSeed(indicator, window))

\* C15: the cumulative indicators depend on the window origin.  obv starts at
\* 0 on the first row of the computed window and ad at mfm*volume of that
\* row; over the suffix window starting at row s, obv is the full series'
\* obv minus its value at s and ad is the full series' ad minus its value at
\* the row before s, so the window's values equal the full series' values
\* exactly when that offset is zero (as it is at the series origin).
C15_CumulativeDependOnOrigin ==
    calc.indicator \in {"obv", "ad"} =>
        \A s \in 1..Len(calc.df) :
            CumulativeFromWindowOrigin(calc.indicator, Window(calc.df, s),
                                       Calculated(calc.indicator, Window(calc.df, s)),
                                       calc.values, s)

\* C15 happens: obv over a frame whose value at the second row is not zero,
\* so that the window starting there differs from the full series.
C15_Witness ==
    /\ calc.indicator = "obv"
    /\ Len(calc.df) >= 4
    /\ calc.values[2] # RInt(0)
    /\ Calculated("obv", Window(calc.df, 2))[3] # calc.values[4]

\* One step of the EMA recursion with alpha = 2/(N+1).
EmaStep(N, close_i, ema_prev) ==
    RAdd(RMul(RNorm(2, N + 1), close_i),
         RMul(RSub(RInt(1), RNorm(2, N + 1)), ema_prev))

EmaSeedLaw(N, close, ema) ==
    /\ Len(ema) = Len(close)
    /\ \A i \in 1..Len(close) :
          ema[i] = IF i = 1 THEN close[1] ELSE EmaStep(N, close[i], ema[i - 1])
    /\ (\A i \in 1..Len(close) : close[i] = close[1])
          => \A i \in 1..Len(close) : ema[i] = close[1]

\* C16: the EMA seed law.  For every period N in {10, 20, 50, 100, 200} the
\* first ema_N of a computed window is the window's first close and every
\* later one is alpha*close[i] + (1-alpha)*ema[i-1] with alpha = 2/(N+1); so
\* over a constant close series ema_N is that constant at every row.
C16_EmaSeedLaw ==
    calc.indicator = "ema" =>
        /\ calc.period \in Range(EMA_PERIODS)
        /\ EmaSeedLaw(calc.period, Column(calc.df, "Close"), calc.values)

\* C16 happens: ema_200 over three rows whose close changes, the last value
\* lying strictly between the first close and the last.
C16_Witness ==
    /\ calc.indicator = "ema" /\ calc.period = 200
    /\ Len(calc.df) = 3
    /\ calc.df[1].Close < calc.df[2].Close /\ calc.df[2].Close < calc.df[3].Close
    /\ calc.values[1] = RInt(calc.df[1].Close)
    /\ RLt(calc.values[1], calc.values[3])
    /\ RLt(calc.values[3], RInt(calc.df[3].Close))

\* C17: leading nulls of ema_200.  In a freshly computed window ema_200 is
\* null on every row that has fewer than 200 prior points in the window and
\* non-null from the row at which 200 prior points exist.
C17_Ema200LeadingNulls ==
    (calc.indicator = "ema" /\ calc.period = 200) =>
        \A i \in 1..Len(calc.values) :
            IsNaN(calc.values[i]) <=> (i - 1 < 200)

\* The sum of the gains (sign 1) or of the losses (sign -1) of the close over
\* rows lo..hi, each row's change taken from the row before it.
RECURSIVE SumOfMoves(_, _, _, _)
SumOfMoves(df, lo, hi, sign) ==
    IF hi < lo THEN 0
    ELSE LET change == sign * (df[hi].Close - df[hi - 1].Close)
         IN SumOfMoves(df, lo, hi - 1, sign) + (IF change > 0 THEN change ELSE 0)

\* rsi of row i from the plain means of the period gains and losses that end
\* at row i; defined from the row at which all of these changes exist.
PlainRsi(df, period, i) ==
    LET avg_gain == RNorm(SumOfMoves(df, i - period + 1, i, 1), period)
        avg_loss == RNorm(SumOfMoves(df, i - period + 1, i, -1), period)
    IN RSub(RInt(100), RDiv(RInt(100), RAdd(RInt(1), RDiv(avg_gain, avg_loss))))

\* C18: rsi warmup.  rsi is the plain 14-row rolling mean of the gains over
\* the 14-row rolling mean of the losses, and its first 14 values (rows 0 to
\* 13 of the computed window) are null.
C18_RsiWarmup ==
    calc.indicator = "rsi" =>
        \A i \in 1..Len(calc.values) :
            IF i <= RSI_PERIOD THEN IsNaN(calc.values[i])
            ELSE calc.values[i] = PlainRsi(calc.df, RSI_PERIOD, i)

StrictlyIncreasing(df) ==
    \A i \in 2..Len(df) : df[i - 1].Close < df[i].Close

\* C19: rsi boundary and range.  Over a strictly increasing close series
\* (average loss 0) rsi is 100 at every row at which the 14-row window is
\* full, and over any series every non-null rsi lies in [0, 100].
C19_RsiBoundaryAndRange ==
    calc.indicator = "rsi" =>
        /\ StrictlyIncreasing(calc.df) =>
              \A i \in RSI_PERIOD..Len(calc.values) : calc.values[i] = RInt(100)
        /\ \A i \in 1..Len(calc.values) :
              ~IsNaN(calc.values[i]) =>
                  RLe(RInt(0), calc.values[i]) /\ RLe(calc.values[i], RInt(100))

\* C19 happens: rsi over a strictly increasing series long enough for full
\* windows, with the value 100 on its last row.
C19_Witness ==
    /\ calc.indicator = "rsi"
    /\ Len(calc.df) > RSI_PERIOD + 1
    /\ StrictlyIncreasing(calc.df)
    /\ calc.values[Len(calc.df)] = RInt(100)

RECURSIVE SumOfVolumes(_, _, _)
SumOfVolumes(df, lo, hi) ==
    IF hi < lo THEN 0 ELSE SumOfVolumes(df, lo, hi - 1) + df[hi].Volume

\* volume[i] over the mean of the period volumes that end at row i.
VolumeOverMean(df, period, i) ==
    RDiv(RInt(df[i].Volume), RNorm(SumOfVolumes(df, i - period + 1, i), period))

\* C20: volume surge warmup.  volume_surge[i] is volume[i] divided by the
\* mean of the 20 volumes ending at row i (null when that mean is zero), and
\* it is null on the first 19 rows of a computed window, the rows at which 20
\* volumes do not yet exist.
C20_VolumeSurgeWarmup ==
    calc.indicator = "volume_surge" =>
        \A i \in 1..Len(calc.values) :
            IF i < VOLUME_SURGE_PERIOD THEN IsNaN(calc.values[i])
            ELSE calc.values[i] = VolumeOverMean(calc.df, VOLUME_SURGE_PERIOD, i)

\* C20 as stated: null on the first 20 rows of the computed window, the
\* quotient after them.
C20_NullOnFirstTwentyRows ==
    calc.indicator = "volume_surge" =>
        \A i \in 1..Len(calc.values) :
            IF i <= VOLUME_SURGE_PERIOD THEN IsNaN(calc.values[i])
            ELSE calc.values[i] = VolumeOverMean(calc.df, VOLUME_SURGE_PERIOD, i)

\* C20 happens: a frame of at least 20 rows whose 19th value is null and
\* whose 20th is a finite ratio.
C20_Witness ==
    /\ calc.indicator = "volume_surge"
    /\ Len(calc.df) >= VOLUME_SURGE_PERIOD
    /\ IsNaN(calc.values[VOLUME_SURGE_PERIOD - 1])
    /\ IsFinite(calc.values[VOLUME_SURGE_PERIOD])
    /\ calc.values[VOLUME_SURGE_PERIOD] # RInt(1)

\* C21: the degenerate AD bar.  On every row with high = low the money-flow
\* multiplier is 0 whatever the close and the volume of the row, so ad stays
\* at the previous row's value there (0 on row 0), and no NaN or infinity
\* enters that row or any later row of the ad line.
C21_DegenerateAdBar ==
    calc.indicator = "ad" =>
        \A i \in 1..Len(calc.values) :
            /\ IsFinite(calc.values[i])
            /\ calc.df[i].High = calc.df[i].Low =>
                  calc.values[i] = IF i = 1 THEN RInt(0) ELSE calc.values[i - 1]


\* The rows of a returned supertrend calculation, and the trend of row i.
TrendAt(i) == calc.trace[i][2]
FinalUpperAt(i) == calc.trace[i][3]
FinalLowerAt(i) == calc.trace[i][4]
CloseAt(i) == RInt(calc.df[i].Close)
SupertrendReturns == calc.indicator = "supertrend" /\ Len(calc.df) > 0

\* C22: the supertrend transition rule.  The trend is Uptrend (1) on row 0;
\* on every later row it goes from Uptrend to Downtrend exactly when the
\* previous trend is Uptrend and the close is at or below final_lower, from
\* Downtrend to Uptrend exactly when the previous trend is Downtrend and the
\* close is at or above final_upper, and otherwise it keeps the previous
\* trend; the emitted value is final_lower in an Uptrend and final_upper in
\* a Downtrend.
C22_SupertrendTransitionRule ==
    SupertrendReturns =>
        /\ TrendAt(1) = 1
        /\ \A i \in 2..Len(calc.df) :
              /\ (TrendAt(i - 1) = 1 /\ TrendAt(i) = -1)
                    <=> (TrendAt(i - 1) = 1 /\ RLe(CloseAt(i), FinalLowerAt(i)))
              /\ (TrendAt(i - 1) = -1 /\ TrendAt(i) = 1)
                    <=> (TrendAt(i - 1) = -1 /\ RGe(CloseAt(i), FinalUpperAt(i)))
              /\ TrendAt(i) \in {1, -1}
              /\ calc.values[i] = IF TrendAt(i) = 1 THEN FinalLowerAt(i)
                                  ELSE FinalUpperAt(i)

\* A returned calculation in which the trend went down on a close that only
\* touches the lower band, and came back up on a later row.
C22_Witness ==
    /\ SupertrendReturns
    /\ \E i \in 2..Len(calc.df) :
          /\ TrendAt(i - 1) = 1 /\ TrendAt(i) = -1
          /\ CloseAt(i) = FinalLowerAt(i)
          /\ \E j \in (i + 1)..Len(calc.df) :
                TrendAt(j - 1) = -1 /\ TrendAt(j) = 1

\* High, low and close each strictly declining over the frame.
StrictlyDeclining ==
    \A i \in 2..Len(calc.df) :
        /\ calc.df[i].High < calc.df[i - 1].High
        /\ calc.df[i].Low < calc.df[i - 1].Low
        /\ calc.df[i].Close < calc.df[i - 1].Close

\* Every bar has the shape of the first: the same distance from the close
\* to the high and to the low.
SameShape ==
    \A i \in 1..Len(calc.df) :
        /\ calc.df[i].High - calc.df[i].Close = calc.df[1].High - calc.df[1].Close
        /\ calc.df[i].Close - calc.df[i].Low = calc.df[1].Close - calc.df[1].Low

\* The trend is Uptrend up to some row and Downtrend from that row on.
FlipsOnceDown ==
    \E k \in 2..Len(calc.df) :
        \A i \in 1..Len(calc.df) : TrendAt(i) = IF i < k THEN 1 ELSE -1

\* C23 as stated: for any series whose high, low and close are each strictly
\* declining and whose close crosses below the lower band, the trend changes
\* exactly once, from Uptrend to Downtrend, and never returns to Uptrend.
C23_SingleFlipOnDecline ==
    ( /\ SupertrendReturns
      /\ StrictlyDeclining
      /\ \E i \in 2..Len(calc.df) : RLt(CloseAt(i), FinalLowerAt(i)) )
        => FlipsOnceDown

\* C23 for bars of one shape: for any series of bars of the same shape whose
\* high, low and close are each strictly declining and whose close reaches
\* or crosses the lower band, the trend changes exactly once, from Uptrend
\* to Downtrend, and never returns to Uptrend.
C23_SingleFlipOnDeclineOfOneShape ==
    ( /\ SupertrendReturns
      /\ StrictlyDeclining
      /\ SameShape
      /\ \E i \in 2..Len(calc.df) : RLe(CloseAt(i), FinalLowerAt(i)) )
        => FlipsOnceDown

\* A declining series of one-shape bars that only touches the lower band,
\* turns down there and is followed for three more rows.
C23_Witness ==
    /\ SupertrendReturns
    /\ StrictlyDeclining
    /\ SameShape
    /\ \E i \in 2..(Len(calc.df) - 3) :
          /\ CloseAt(i) = FinalLowerAt(i)
          /\ TrendAt(i - 1) = 1 /\ TrendAt(i) = -1
    /\ FlipsOnceDown

\* The basic bands <<upper_band, lower_band>> of the frame of the returned
\* calculation.
BasicBands ==
    supertrend_bands(Column(calc.df, "High"), Column(calc.df, "Low"),
                     calculate_atr(Column(calc.df, "High"), Column(calc.df, "Low"),
                                   Column(calc.df, "Close"), SUPERTREND_PERIOD),
                     SUPERTREND_MULTIPLIER)

\* From row i - 1 to row i the final upper band does not increase when the
\* closes of both rows are at or below the basic and the final upper band.
UpperRatchets(upper_band, i) ==
    ( /\ IsFinite(FinalUpperAt(i - 1)) /\ IsFinite(FinalUpperAt(i))
      /\ RLe(CloseAt(i - 1), upper_band[i - 1]) /\ RLe(CloseAt(i), upper_band[i])
      /\ RLe(CloseAt(i - 1), FinalUpperAt(i - 1)) /\ RLe(CloseAt(i), FinalUpperAt(i)) )
        => RLe(FinalUpperAt(i), FinalUpperAt(i - 1))

LowerRatchets(lower_band, i) ==
    ( /\ IsFinite(FinalLowerAt(i - 1)) /\ IsFinite(FinalLowerAt(i))
      /\ RGe(CloseAt(i - 1), lower_band[i - 1]) /\ RGe(CloseAt(i), lower_band[i])
      /\ RGe(CloseAt(i - 1), FinalLowerAt(i - 1)) /\ RGe(CloseAt(i), FinalLowerAt(i)) )
        => RGe(FinalLowerAt(i), FinalLowerAt(i - 1))

RatchetsOver(bands) ==
    \A i \in 3..Len(calc.df) :
        UpperRatchets(bands[1], i) /\ LowerRatchets(bands[2], i)

\* C24: the supertrend band ratchet.  Over consecutive rows on which the
\* close stays at or below the upper band the final upper band never
\* increases from one row to the next, and over consecutive rows on which
\* the close stays at or above the lower band the final lower band never
\* decreases.
C24_SupertrendBandRatchet ==
    SupertrendReturns => RatchetsOver(BasicBands)

\* C29: the leading nulls of the supertrend.  On rows 0 to 10 of any computed
\* window (SUPERTREND_PERIOD + 1 rows) the emitted value is null and the
\* trend is Uptrend; the first value that is not null is that of row 11.
C29_SupertrendLeadingNulls ==
    SupertrendReturns =>
        \A i \in 1..Len(calc.df) :
            /\ i <= SUPERTREND_PERIOD + 1 => IsNaN(calc.values[i]) /\ TrendAt(i) = 1
            /\ i = SUPERTREND_PERIOD + 2 => IsFinite(calc.values[i])

\* A returned calculation over more than twelve rows whose row 11 carries a
\* number.
C29_Witness ==
    /\ SupertrendReturns
    /\ Len(calc.df) > SUPERTREND_PERIOD + 2
    /\ IsFinite(calc.values[SUPERTREND_PERIOD + 2])
    /\ IsNaN(calc.values[SUPERTREND_PERIOD + 1])

\* A returned run over database prices without from-date whose fetched
\* frame reaches the latest price of the symbol, and whose cursor was not
\* ahead of the prices when it started.
RunOverDatabasePrices ==
    /\ RunDone
    /\ IsIncrementalCall(run)
    /\ run.data_source = "database"
    /\ run.price_data # <<>>
    /\ MaxDate(FrameDates(run.price_data)) = get_latest_price_date(run.symbol)
    /\ CursorIn(run.store_before, clean_symbol(run.symbol))
          <= get_latest_price_date(run.symbol)

\* C28: after a process_single_symbol run over database prices (ColdStart or
\* Incremental, no from-date) that reports success, the cursor of the symbol
\* equals its maximum price date, so that get_symbols_needing_indicators_update
\* no longer selects it; in every configuration in which the run reports
\* success, database updates disabled included.
C28_SuccessAdvancesCursor ==
    (RunOverDatabasePrices /\ run.result)
        => /\ CursorIn(store, clean_symbol(run.symbol)) = get_latest_price_date(run.symbol)
           /\ clean_symbol(run.symbol) \notin Range(get_symbols_needing_indicators_update)

\* C25: connection release.  Every connection opened by an IndicatorsWriter
\* operation is closed before the operation returns, on the success path
\* and on every error path: whenever no operation is in progress the number
\* of open connections is zero.
C25_ConnectionRelease ==
    session.pc = "idle" => session.open = 0

\* The source errors that tell of a rate limit.
RateLimitErrors == {TooManyRequests, RateLimitedByProxy}
IsRateLimitedAttempt(a) == a.kind = "raise" /\ a.value \in RateLimitErrors

\* What a finished fetch has done, told from its attempts.
FetchRetryLaw ==
    LET n == Len(fetcher.history)
    IN /\ n <= fetcher.retries
       /\ fetcher.pc = "done" =>
             /\ \A k \in 1..(n - 1) : IsRateLimitedAttempt(fetcher.history[k])
             /\ fetcher.outcome \in {"returned", "raised"}
             /\ fetcher.outcome = "returned" =>
                   /\ n >= 1
                   /\ fetcher.history[n].kind = "return"
                   /\ fetcher.value = fetcher.history[n].value
             /\ fetcher.outcome = "raised" =>
                   IF n >= 1 /\ ~IsRateLimitedAttempt(fetcher.history[n])
                   THEN /\ fetcher.history[n].kind = "raise"
                        /\ fetcher.value = fetcher.history[n].value
                   ELSE /\ n = fetcher.retries
                        /\ fetcher.value = FailedAfterRetries

\* C26: bounded fetch retry.  fetch_historical_data (and
\* fetch_historical_data_from_date) makes at most `retries` attempts and
\* always terminates: it returns the result of the first attempt that does
\* not raise, re-raises an exception that is not a rate limit at once
\* without a further attempt, and raises a failure after exactly `retries`
\* rate-limited attempts (at once when retries is 0).
C26_BoundedFetchRetry ==
    /\ []FetchRetryLaw
    /\ (fetcher.pc = "loop") ~> (fetcher.pc = "done")

\* A call that gave up after three rate-limited attempts, no more.
C26_Witness ==
    /\ fetcher.pc = "done"
    /\ fetcher.retries >= 3
    /\ Len(fetcher.history) = fetcher.retries
    /\ \A k \in 1..Len(fetcher.history) : IsRateLimitedAttempt(fetcher.history[k])
    /\ fetcher.outcome = "raised"
    /\ fetcher.value = FailedAfterRetries

\* An attempt of the outer loop during which the source was rate limited.
WasRateLimited(attempt) ==
    \E k \in 1..Len(attempt.source) : IsRateLimitedAttempt(attempt.source[k])

\* The attempts of one symbol, as the claim has them.
RetriesWhenRateLimited(attempts, retries) ==
    /\ Len(attempts) <= retries
    /\ retries > 0 => Len(attempts) >= 1
    /\ \A j \in 1..Len(attempts) :
          IF WasRateLimited(attempts[j])
          THEN j < retries => j < Len(attempts)
          ELSE j = Len(attempts)

\* C27: batch fetch retry.  fetch_multiple_historical_data attempts every
\* symbol of the list whatever happened to the earlier ones; for each symbol
\* a fetch that is rate limited is attempted again, up to `retries` attempts
\* for the symbol; a success or a failure that is not a rate limit ends the
\* attempts of the symbol.
C27_BatchFetchRetry ==
    multi.pc = "done" =>
        \A k \in 1..Len(multi.symbols) :
            RetriesWhenRateLimited(multi.log[k], multi.retries)

\* A sync that read a file that was not empty, with its last date before
\* today, and got rows from the source.
SyncedFromSource ==
    syncer.pc = "done" /\ syncer.outcome \in {"appended", "nothing to append"}

\* C30: the CSV incremental sync is append-only and loses nothing.  Given a
\* CSV that is not empty and whose last date L is before today,
\* sync_symbol_data leaves every row of the file as it was, appends every
\* fetched row dated after L and never produces two rows of the same date,
\* whatever the source returned for the fetch from L, a result whose first
\* row is not dated L included.
C30_CsvSyncAppendOnly ==
    SyncedFromSource =>
        /\ SubSeq(syncer.file, 1, Len(syncer.df)) = syncer.df
        /\ \A k \in 1..Len(syncer.fetched) :
              syncer.fetched[k].Date > syncer.last_date
                  => \E j \in 1..Len(syncer.file) : syncer.file[j] = syncer.fetched[k]
        /\ \A j, k \in 1..Len(syncer.file) :
              syncer.file[j].Date = syncer.file[k].Date => j = k
=============================================================================
